---- MODULE Spec2Model ----
(***************************************************************************)
(* A model of the content-creation agent "henry": the graph-shaped         *)
(* MemoryManager (src/memory/graph_db.py), the PhaseController             *)
(* (src/engine/phase.py), the AgentState context window                    *)
(* (src/llm/agent_state.py), the LLMClient (src/llm/client.py) and the     *)
(* InteractionEngine (src/engine/interaction.py).                          *)
(*                                                                         *)
(* Texts are sequences of one-character strings, so that lower-casing,     *)
(* stripping, prefix tests and substring tests are computed as Python      *)
(* computes them.  Identifiers handed out by the store (randomUUID()) are  *)
(* the positions of the records in the store's sequences; 0 stands for     *)
(* Python's None.                                                          *)
(***************************************************************************)
EXTENDS Integers, Sequences, FiniteSets, TLC

VARIABLES
    store,   \* the graph: contents, phases, CURRENT_PHASE links, questions, inputs
    mm,      \* the MemoryManager handle: session_id, current_phase_id
    eng,     \* the InteractionEngine: last_question_id, policy, agent_state
    now,     \* the wall clock read by datetime.now()
    ret,     \* what the last call did: operation, arguments, result, store writes
    faults,  \* how many calls so far had a store write rejected
    win,     \* a stand-alone AgentState (the window driven directly)
    hist     \* every turn ever appended to win, in append order

vars == <<store, mm, eng, now, ret, faults, win, hist>>

-----------------------------------------------------------------------------
(* Bounds of the model *)

MaxSessions == 1
MaxTurns == 2
MaxPhases == 5
MaxFaults == 1
MaxDraw == 2
MaxAppends == 11
MaxCapacity == 2
MaxLen == 4
MaxStoreCalls == 8
MaxSaved == 2
MaxStored == 2
MaxReads == 2

-----------------------------------------------------------------------------
(* Text: str.lower, str.strip, str.startswith, the `in` operator *)

UpperAlpha == <<"A", "B", "C", "D", "E", "F", "G", "H", "I", "J", "K", "L", "M",
                "N", "O", "P", "Q", "R", "S", "T", "U", "V", "W", "X", "Y", "Z">>

LowerAlpha == <<"a", "b", "c", "d", "e", "f", "g", "h", "i", "j", "k", "l", "m",
                "n", "o", "p", "q", "r", "s", "t", "u", "v", "w", "x", "y", "z">>

Whitespace == {" ", "\t", "\n"}

lower_char(c) ==
    IF \E i \in DOMAIN UpperAlpha : UpperAlpha[i] = c
    THEN LowerAlpha[CHOOSE i \in DOMAIN UpperAlpha : UpperAlpha[i] = c]
    ELSE c

lower_identity(t) == t

lower(t) == [i \in 1..Len(t) |-> lower_char(t[i])]

RECURSIVE lstrip(_)
lstrip(t) ==
    IF t # <<>> /\ Head(t) \in Whitespace THEN lstrip(Tail(t)) ELSE t

RECURSIVE rstrip(_)
rstrip(t) ==
    IF t # <<>> /\ t[Len(t)] \in Whitespace
    THEN rstrip(SubSeq(t, 1, Len(t) - 1))
    ELSE t

strip(t) == rstrip(lstrip(t))

startswith(t, prefix) ==
    /\ Len(t) >= Len(prefix)
    /\ SubSeq(t, 1, Len(prefix)) = prefix

\* needle in hay
contains(hay, needle) ==
    \E i \in 0..(Len(hay) - Len(needle)) :
        SubSeq(hay, i + 1, i + Len(needle)) = needle

kw_next == <<"n", "e", "x", "t">>
kw_structure == <<"s", "t", "r", "u", "c", "t", "u", "r", "e">>
kw_outline == <<"o", "u", "t", "l", "i", "n", "e">>
kw_move_on == <<"m", "o", "v", "e", " ", "o", "n">>
kw_enough_context == <<"e", "n", "o", "u", "g", "h", " ", "c", "o", "n", "t", "e", "x", "t">>
kw_content == <<"c", "o", "n", "t", "e", "n", "t">>
kw_details == <<"d", "e", "t", "a", "i", "l", "s">>
kw_expand == <<"e", "x", "p", "a", "n", "d">>
kw_flesh_out == <<"f", "l", "e", "s", "h", " ", "o", "u", "t">>
kw_refine == <<"r", "e", "f", "i", "n", "e">>
kw_review == <<"r", "e", "v", "i", "e", "w">>
kw_finalize == <<"f", "i", "n", "a", "l", "i", "z", "e">>
kw_polish == <<"p", "o", "l", "i", "s", "h">>
kw_revise == <<"r", "e", "v", "i", "s", "e">>

cmd_help == <<"/", "h", "e", "l", "p">>
cmd_status == <<"/", "s", "t", "a", "t", "u", "s">>
cmd_export == <<"/", "e", "x", "p", "o", "r", "t">>
cmd_menu == <<"/", "m", "e", "n", "u">>
cmd_next == <<"/", "n", "e", "x", "t">>

\* The inputs a user types
txt_lets_move_on == <<"l", "e", "t", "'", "s", " ", "m", "o", "v", "e", " ", "o", "n">>
txt_i_like_cats == <<"I", " ", "l", "i", "k", "e", " ", "c", "a", "t", "s">>
txt_NEXT == <<"N", "E", "X", "T">>
txt_Please_Refine == <<"P", "l", "e", "a", "s", "e", " ", "R", "e", "f", "i", "n", "e", " ", "i", "t">>
txt_add_details == <<"a", "d", "d", " ", "m", "o", "r", "e", " ", "D", "E", "T", "A", "I", "L", "S">>
txt_slash_next == <<"/", "n", "e", "x", "t">>
txt_slash_status == <<"/", "s", "t", "a", "t", "u", "s">>
txt_slash_bogus == <<"/", "b", "o", "g", "u", "s">>
txt_slash_Next_sp == <<" ", "/", "N", "e", "x", "t", " ">>

txt_slash_structure == <<"/", "s", "t", "r", "u", "c", "t", "u", "r", "e">>
txt_slash_NEXT_sp == <<"/", "N", "E", "X", "T", " ">>

EngineTexts == {txt_lets_move_on, txt_i_like_cats, txt_NEXT, txt_slash_next, txt_slash_status}

\* What a user types at the prompt when trying the commands: each command of
\* the table, a command in capitals with a trailing blank, two inputs with a
\* slash that are no command, and two inputs that do not start with a slash
CommandTexts ==
    {cmd_help, cmd_status, cmd_export, cmd_menu, cmd_next, txt_slash_NEXT_sp,
     txt_slash_bogus, txt_slash_structure, txt_slash_Next_sp, txt_lets_move_on}

ContentTypes == {"blog_post"}
Topics == {"Test Topic"}

-----------------------------------------------------------------------------
(* ContentPhase and the PhaseController's name maps *)

CONTEXT_GATHERING == "CONTEXT_GATHERING"
STRUCTURE_DEVELOPMENT == "STRUCTURE_DEVELOPMENT"
CONTENT_DEVELOPMENT == "CONTENT_DEVELOPMENT"
REFINEMENT == "REFINEMENT"

ContentPhase == {CONTEXT_GATHERING, STRUCTURE_DEVELOPMENT, CONTENT_DEVELOPMENT, REFINEMENT}

\* Python's None, where a name or an enum member is expected
None == "None"

PhaseNames == {"Context Gathering", "Structure Development", "Content Development", "Refinement"}

phase_map(name) ==
    CASE name = "Context Gathering" -> CONTEXT_GATHERING
      [] name = "Structure Development" -> STRUCTURE_DEVELOPMENT
      [] name = "Content Development" -> CONTENT_DEVELOPMENT
      [] name = "Refinement" -> REFINEMENT
      [] OTHER -> None

reverse_phase_map(phase) ==
    CASE phase = CONTEXT_GATHERING -> "Context Gathering"
      [] phase = STRUCTURE_DEVELOPMENT -> "Structure Development"
      [] phase = CONTENT_DEVELOPMENT -> "Content Development"
      [] phase = REFINEMENT -> "Refinement"

-----------------------------------------------------------------------------
(* Calls, results and exceptions.                                          *)
(* A world w holds everything a handler can read or write, the number of   *)
(* store writes issued so far by the running handler (calls, log), and the *)
(* environment's choice of which of them the store rejects (failAt,        *)
(* persist): the failAt-th write raises, and with persist every later one  *)
(* does too.                                                               *)

Ok(w, rv) == [w |-> w, exc |-> "none", rv |-> rv]

Raise(w, e) == [w |-> w, exc |-> e, rv |-> None]

StoreFails(w) ==
    /\ w.failAt # 0
    /\ \/ w.calls + 1 = w.failAt
       \/ w.persist /\ w.calls + 1 > w.failAt

StoreCall(w, op, args) ==
    [w EXCEPT !.calls = @ + 1,
              !.log = Append(@, [op |-> op, args |-> args, failed |-> StoreFails(w)])]

-----------------------------------------------------------------------------
(* MemoryManager (src/memory/graph_db.py).  Every session.run is one       *)
(* auto-commit transaction: it takes effect as a whole or, when the store  *)
(* rejects it, not at all and the driver's exception leaves the method.    *)

\* start_new_session whose three CREATEs are issued as separate writes
start_new_session_split(w, type, topic) ==
    LET w1 == StoreCall(w, "start_new_session", <<type, topic>>)
        c == Len(w.contents) + 1
        wc == [w1 EXCEPT !.contents = Append(@, [type |-> type, topic |-> topic]),
                         !.session_id = c]
        w2 == StoreCall(wc, "create_phase", <<c>>)
        p == Len(w.phases) + 1
        wp == [w2 EXCEPT
                 !.phases = Append(@, [content |-> c, name |-> "Context Gathering",
                                       ended |-> FALSE]),
                 !.current = @ \cup {<<c, p>>},
                 !.current_phase_id = p]
    IN  IF StoreFails(w) THEN Raise(w1, "StoreError")
        ELSE IF StoreFails(wc) THEN Raise(w2, "StoreError")
        ELSE Ok(wp, c)

start_new_session(w, type, topic) ==
    LET w1 == StoreCall(w, "start_new_session", <<type, topic>>)
        c == Len(w.contents) + 1
        p == Len(w.phases) + 1
        w2 == [w1 EXCEPT
                 !.contents = Append(@, [type |-> type, topic |-> topic]),
                 !.phases = Append(@, [content |-> c, name |-> "Context Gathering",
                                       ended |-> FALSE]),
                 !.current = @ \cup {<<c, p>>},
                 !.session_id = c,
                 !.current_phase_id = p]
    IN  IF StoreFails(w) THEN Raise(w1, "StoreError") ELSE Ok(w2, c)

\* add_user_input that records the link whatever the question id names
add_user_input_dangling(w, text, response_to) ==
    LET w1 == StoreCall(w, "add_user_input", <<text, response_to>>)
        i == Len(w.inputs) + 1
        w2 == [w1 EXCEPT !.inputs = Append(@, [content |-> w.session_id, text |-> text,
                                                response_to |-> 0])]
        w3 == StoreCall(w2, "response_to", <<i, response_to>>)
        w4 == [w3 EXCEPT !.inputs[i].response_to = response_to]
    IN  IF StoreFails(w) THEN Raise(w1, "StoreError")
        ELSE IF w.session_id \notin 1..Len(w.contents) THEN Raise(w1, "TypeError")
        ELSE IF response_to = 0 THEN Ok(w2, i)
        ELSE IF StoreFails(w2) THEN Raise(w3, "StoreError")
        ELSE Ok(w4, i)

add_user_input(w, text, response_to) ==
    LET w1 == StoreCall(w, "add_user_input", <<text, response_to>>)
        i == Len(w.inputs) + 1
        w2 == [w1 EXCEPT !.inputs = Append(@, [content |-> w.session_id, text |-> text,
                                                response_to |-> 0])]
        w3 == StoreCall(w2, "response_to", <<i, response_to>>)
        w4 == IF response_to \in 1..Len(w.questions)
              THEN [w3 EXCEPT !.inputs[i].response_to = response_to]
              ELSE w3
    IN  IF StoreFails(w) THEN Raise(w1, "StoreError")
        ELSE IF w.session_id \notin 1..Len(w.contents) THEN Raise(w1, "TypeError")
        ELSE IF response_to = 0 THEN Ok(w2, i)
        ELSE IF StoreFails(w2) THEN Raise(w3, "StoreError")
        ELSE Ok(w4, i)

add_question(w, text, intent) ==
    LET w1 == StoreCall(w, "add_question", <<text, intent>>)
        q == Len(w.questions) + 1
        w2 == [w1 EXCEPT !.questions = Append(@, [content |-> w.session_id,
                                                   phase |-> w.current_phase_id,
                                                   text |-> text, intent |-> intent])]
    IN  IF StoreFails(w) THEN Raise(w1, "StoreError")
        ELSE IF \/ w.session_id \notin 1..Len(w.contents)
                \/ w.current_phase_id \notin 1..Len(w.phases)
             THEN Raise(w1, "TypeError")
        ELSE Ok(w2, q)

\* The phases holding the CURRENT_PHASE relation of session c
CurrentPhases(st, c) == {p \in 1..Len(st.phases) : <<c, p>> \in st.current}

EndCurrentPhase(w) ==
    LET ending == CurrentPhases(w, w.session_id)
    IN  [w EXCEPT
          !.phases = [p \in 1..Len(w.phases) |->
                        IF p \in ending THEN [w.phases[p] EXCEPT !.ended = TRUE]
                        ELSE w.phases[p]],
          !.current = {r \in w.current : r[1] # w.session_id}]

\* transition_phase that opens the new phase without ending the current one
transition_phase_keep(w, new_phase_name) ==
    LET w1 == StoreCall(w, "create_phase", <<new_phase_name>>)
        p == Len(w.phases) + 1
        w2 == [w1 EXCEPT
                 !.phases = Append(@, [content |-> w.session_id, name |-> new_phase_name,
                                       ended |-> FALSE]),
                 !.current = @ \cup {<<w.session_id, p>>},
                 !.current_phase_id = p]
    IN  IF StoreFails(w) THEN Raise(w1, "StoreError")
        ELSE IF w.session_id \notin 1..Len(w.contents) THEN Raise(w1, "TypeError")
        ELSE Ok(w2, p)

transition_phase(w, new_phase_name) ==
    LET w1 == StoreCall(w, "end_phase", <<>>)
        w2 == EndCurrentPhase(w1)
        w3 == StoreCall(w2, "create_phase", <<new_phase_name>>)
        p == Len(w.phases) + 1
        w4 == [w3 EXCEPT
                 !.phases = Append(@, [content |-> w.session_id, name |-> new_phase_name,
                                       ended |-> FALSE]),
                 !.current = @ \cup {<<w.session_id, p>>},
                 !.current_phase_id = p]
    IN  IF StoreFails(w) THEN Raise(w1, "StoreError")
        ELSE IF StoreFails(w2) THEN Raise(w3, "StoreError")
        ELSE IF w.session_id \notin 1..Len(w.contents) THEN Raise(w3, "TypeError")
        ELSE Ok(w4, p)

\* result.single() hands back the first record when several match
MemoryManager_get_current_phase(w) ==
    LET cur == CurrentPhases(w, w.session_id)
    IN  IF cur = {} THEN None
        ELSE w.phases[CHOOSE p \in cur : \A o \in cur : p <= o].name

\* The first write of transition_phase: SET p.ended, DELETE r
transition_phase_end(w) ==
    LET w1 == StoreCall(w, "end_phase", <<>>)
    IN  IF StoreFails(w) THEN Raise(w1, "StoreError") ELSE Ok(EndCurrentPhase(w1), 0)

\* The second write of transition_phase: CREATE the Phase and its
\* CURRENT_PHASE relation, then cache the id
transition_phase_create(w, new_phase_name) ==
    LET w1 == StoreCall(w, "create_phase", <<new_phase_name>>)
        p == Len(w.phases) + 1
        w2 == [w1 EXCEPT
                 !.phases = Append(@, [content |-> w.session_id, name |-> new_phase_name,
                                       ended |-> FALSE]),
                 !.current = @ \cup {<<w.session_id, p>>},
                 !.current_phase_id = p]
    IN  IF StoreFails(w) THEN Raise(w1, "StoreError")
        ELSE IF w.session_id \notin 1..Len(w.contents) THEN Raise(w1, "TypeError")
        ELSE Ok(w2, p)

\* The rows of list_sessions for session c: one per current Phase, and one
\* with a null current_phase when it has none (OPTIONAL MATCH)
RECURSIVE session_rows(_, _, _)
session_rows(w, c, p) ==
    IF p > Len(w.phases) THEN <<>>
    ELSE (IF <<c, p>> \in w.current
          THEN <<[id |-> c, topic |-> w.contents[c].topic, type |-> w.contents[c].type,
                  current_phase |-> w.phases[p].name]>>
          ELSE <<>>) \o session_rows(w, c, p + 1)

\* list_sessions: the sessions, the one created last first
RECURSIVE list_sessions_from(_, _)
list_sessions_from(w, c) ==
    IF c = 0 THEN <<>>
    ELSE (IF CurrentPhases(w, c) = {}
          THEN <<[id |-> c, topic |-> w.contents[c].topic, type |-> w.contents[c].type,
                  current_phase |-> None]>>
          ELSE session_rows(w, c, 1)) \o list_sessions_from(w, c - 1)

list_sessions(w) == list_sessions_from(w, Len(w.contents))

\* The most recent Question of the store, whatever its session
last_question_of_store(w, c) == Len(w.questions)

\* The most recent Question of session c (ORDER BY q.timestamp DESC LIMIT 1),
\* 0 when it has none
LastQuestion(w, c) ==
    LET qs == {q \in 1..Len(w.questions) : w.questions[q].content = c}
    IN  IF qs = {} THEN 0 ELSE CHOOSE q \in qs : \A o \in qs : o <= q

\* load_session: two reads; the handle is pointed at the session between
\* them.  The result is <<>> for None and <<session_data>> otherwise.
load_session(w, session_id) ==
    LET cur == CurrentPhases(w, session_id)
        phase_id == IF cur = {} THEN 0 ELSE CHOOSE p \in cur : \A o \in cur : p <= o
        w1 == [w EXCEPT !.session_id = session_id, !.current_phase_id = phase_id]
        q == LastQuestion(w1, session_id)
        session_data ==
            [id |-> session_id,
             topic |-> w.contents[session_id].topic,
             type |-> w.contents[session_id].type,
             phase_name |-> IF phase_id = 0 THEN None ELSE w.phases[phase_id].name,
             last_question_id |-> q,
             last_question |-> IF q = 0 THEN <<>> ELSE <<w.questions[q].text>>]
    IN  IF session_id \notin 1..Len(w.contents) THEN Ok(w, <<>>)
        ELSE Ok(w1, <<session_data>>)

-----------------------------------------------------------------------------
(* PhaseController (src/engine/phase.py) *)

get_current_phase(w) == phase_map(MemoryManager_get_current_phase(w))

\* transition_to_next_phase that wraps around from the last phase
transition_to_next_phase_wrap(w) ==
    LET current_phase == get_current_phase(w)
        next_phase ==
            CASE current_phase = CONTEXT_GATHERING -> STRUCTURE_DEVELOPMENT
              [] current_phase = STRUCTURE_DEVELOPMENT -> CONTENT_DEVELOPMENT
              [] current_phase = CONTENT_DEVELOPMENT -> REFINEMENT
              [] OTHER -> CONTEXT_GATHERING
        t == transition_phase(w, reverse_phase_map(next_phase))
    IN  IF t.exc # "none" THEN t ELSE Ok(t.w, TRUE)

\* transition_to_next_phase that goes from the first phase to the third
transition_to_next_phase_skip(w) ==
    LET current_phase == get_current_phase(w)
        next_phase ==
            CASE current_phase = CONTEXT_GATHERING -> CONTENT_DEVELOPMENT
              [] current_phase = STRUCTURE_DEVELOPMENT -> CONTENT_DEVELOPMENT
              [] current_phase = CONTENT_DEVELOPMENT -> REFINEMENT
              [] OTHER -> None
        t == transition_phase(w, reverse_phase_map(next_phase))
    IN  IF next_phase = None THEN Ok(w, FALSE)
        ELSE IF t.exc # "none" THEN t
        ELSE Ok(t.w, TRUE)

transition_to_next_phase(w) ==
    LET current_phase == get_current_phase(w)
        next_phase ==
            CASE current_phase = CONTEXT_GATHERING -> STRUCTURE_DEVELOPMENT
              [] current_phase = STRUCTURE_DEVELOPMENT -> CONTENT_DEVELOPMENT
              [] current_phase = CONTENT_DEVELOPMENT -> REFINEMENT
              [] OTHER -> None
        t == transition_phase(w, reverse_phase_map(next_phase))
    IN  IF next_phase = None THEN Ok(w, FALSE)
        ELSE IF t.exc # "none" THEN t
        ELSE Ok(t.w, TRUE)

\* The number of candidate prompts of each phase
NumPrompts == 5

Prompt(phase, i) == [kind |-> "prompt", phase |-> phase, idx |-> i]

\* "Could you tell me more about what you're looking to create?"
GenericPrompt == [kind |-> "generic", phase |-> None, idx |-> 1]

get_phase_prompts(w) ==
    LET current_phase == get_current_phase(w)
    IN  IF current_phase \in ContentPhase
        THEN [i \in 1..NumPrompts |-> Prompt(current_phase, i)]
        ELSE <<GenericPrompt>>

-----------------------------------------------------------------------------
(* Python dicts are functions on a finite set of string keys *)

EmptyDict == [k \in {} |-> 0]

dict_set(d, key, v) == [k \in DOMAIN d \cup {key} |-> IF k = key THEN v ELSE d[k]]

dict_update(d, e) == [k \in DOMAIN d \cup DOMAIN e |-> IF k \in DOMAIN e THEN e[k] ELSE d[k]]

-----------------------------------------------------------------------------
(* AgentState and Message (src/llm/agent_state.py) *)

\* AgentState.__init__'s default for max_context_messages
DefaultCapacity == 10

Message(role, content, timestamp, metadata) ==
    [role |-> role, content |-> content, timestamp |-> timestamp, metadata |-> metadata]

\* What a turn says: the text the user typed or the parts of the engine's reply
UserContent(text) == [text |-> text, resp |-> <<>>]

AssistantContent(resp) == [text |-> <<>>, resp |-> resp]

to_dict(msg) == [role |-> msg.role, content |-> msg.content]

\* A datetime is its count of microseconds
MicrosPerSecond == 1000000

\* datetime.isoformat(timespec="seconds"): the text without the fraction
isoformat_seconds(t) == <<t \div MicrosPerSecond>>

\* datetime.isoformat(): the text "...:SS", followed by ".ffffff" unless the
\* microsecond is 0; a text is the sequence of its numeric fields
isoformat(t) ==
    IF t % MicrosPerSecond = 0
    THEN <<t \div MicrosPerSecond>>
    ELSE <<t \div MicrosPerSecond, t % MicrosPerSecond>>

\* datetime.fromisoformat(text): [exc, rv]
fromisoformat(text) ==
    IF Len(text) = 1 THEN [exc |-> "none", rv |-> text[1] * MicrosPerSecond]
    ELSE IF Len(text) = 2 /\ text[2] \in 0..(MicrosPerSecond - 1)
         THEN [exc |-> "none", rv |-> text[1] * MicrosPerSecond + text[2]]
    ELSE [exc |-> "ValueError", rv |-> 0]

to_storage_dict(msg) ==
    [role |-> msg.role, content |-> msg.content,
     timestamp |-> isoformat(msg.timestamp), metadata |-> msg.metadata]

AgentState(max_context_messages) ==
    [max_context_messages |-> max_context_messages,
     recent_messages |-> <<>>,
     current_topic |-> None,
     content_type |-> None,
     session_id |-> None,
     confidence |-> EmptyDict,
     working_memory |-> EmptyDict,
     last_analysis |-> [type |-> "dict", d |-> EmptyDict]]

\* recent_messages[-n:]; Python reads [-0:] as the whole list
last_n(msgs, n) ==
    IF n = 0 \/ n >= Len(msgs) THEN msgs
    ELSE SubSeq(msgs, Len(msgs) - n + 1, Len(msgs))

\* a trim that keeps the oldest turns instead of the newest
add_message_keep_oldest(as, role, content, timestamp) ==
    LET appended == Append(as.recent_messages, Message(role, content, timestamp, EmptyDict))
    IN  [as EXCEPT !.recent_messages =
            IF Len(appended) > as.max_context_messages
            THEN SubSeq(appended, 1, as.max_context_messages)
            ELSE appended]

add_message(as, role, content, timestamp) ==
    LET appended == Append(as.recent_messages, Message(role, content, timestamp, EmptyDict))
    IN  [as EXCEPT !.recent_messages =
            IF Len(appended) > as.max_context_messages
            THEN last_n(appended, as.max_context_messages)
            ELSE appended]

get_recent_context(as) ==
    [i \in 1..Len(as.recent_messages) |-> to_dict(as.recent_messages[i])]

\* d.get(key, default)
dict_get(d, key, default) == IF key \in DOMAIN d THEN d[key] ELSE default

\* Message.from_storage_dict(data): [exc, rv]
from_storage_dict(data) ==
    LET ts == fromisoformat(data.timestamp)
    IN  IF {"role", "content", "timestamp"} \ DOMAIN data # {}
        THEN [exc |-> "KeyError", rv |-> None]
        ELSE IF ts.exc # "none" THEN [exc |-> ts.exc, rv |-> None]
        ELSE [exc |-> "none",
              rv |-> Message(data.role, data.content, ts.rv,
                             dict_get(data, "metadata", EmptyDict))]

save_state(as) ==
    [session_id |-> as.session_id,
     current_topic |-> as.current_topic,
     content_type |-> as.content_type,
     confidence |-> as.confidence,
     working_memory |-> as.working_memory,
     recent_messages |-> [i \in 1..Len(as.recent_messages) |->
                             to_storage_dict(as.recent_messages[i])]]

\* load_state that gives up at the first entry it cannot read
RECURSIVE load_messages_until_bad(_, _, _)
load_messages_until_bad(msgs_data, i, recent_messages) ==
    IF i > Len(msgs_data) THEN recent_messages
    ELSE LET m == from_storage_dict(msgs_data[i])
         IN  IF m.exc = "none"
             THEN load_messages_until_bad(msgs_data, i + 1, Append(recent_messages, m.rv))
             ELSE recent_messages

\* The loop of load_state over state_data["recent_messages"], from entry i on
RECURSIVE load_messages(_, _, _)
load_messages(msgs_data, i, recent_messages) ==
    IF i > Len(msgs_data) THEN recent_messages
    ELSE LET m == from_storage_dict(msgs_data[i])
         IN  load_messages(msgs_data, i + 1,
                           IF m.exc = "none" THEN Append(recent_messages, m.rv)
                           ELSE recent_messages)

load_state(as, state_data) ==
    [as EXCEPT !.session_id = dict_get(state_data, "session_id", None),
               !.current_topic = dict_get(state_data, "current_topic", None),
               !.content_type = dict_get(state_data, "content_type", None),
               !.confidence = dict_get(state_data, "confidence", EmptyDict),
               !.working_memory = dict_get(state_data, "working_memory", EmptyDict),
               !.recent_messages =
                   load_messages(dict_get(state_data, "recent_messages", <<>>), 1, <<>>)]

\* A decoded JSON value: type is "dict", "list", "number" or "null"; d holds a
\* dict's items
Json(type, d) == [type |-> type, d |-> d]

\* load_state on a decoded snapshot, whose "recent_messages" is a Json value:
\* [as, exc].  The for statement raises when the value is not iterable, after
\* the assignments before it
load_state_try(as, state_data) ==
    LET msgs_data == dict_get(state_data, "recent_messages", Json("list", <<>>))
    IN  IF msgs_data.type = "list"
        THEN [as |-> load_state(as, [state_data EXCEPT !.recent_messages = msgs_data.d]),
              exc |-> "none"]
        ELSE [as |-> [as EXCEPT
                        !.session_id = dict_get(state_data, "session_id", None),
                        !.current_topic = dict_get(state_data, "current_topic", None),
                        !.content_type = dict_get(state_data, "content_type", None),
                        !.confidence = dict_get(state_data, "confidence", EmptyDict),
                        !.working_memory = dict_get(state_data, "working_memory", EmptyDict),
                        !.recent_messages = <<>>],
              exc |-> "TypeError"]

\* x in analysis
json_has(analysis, key) == analysis.type = "dict" /\ key \in DOMAIN analysis.d

\* set_analysis_result: [as, exc]
set_analysis_result(as, analysis) ==
    LET a0 == [as EXCEPT !.last_analysis = analysis]
        d == analysis.d
        a1 == IF json_has(analysis, "confidence")
              THEN [a0 EXCEPT !.confidence = dict_update(@, d.confidence.d)]
              ELSE a0
        a2 == IF json_has(analysis, "entities")
              THEN [a1 EXCEPT !.working_memory = dict_set(@, "entities", d.entities)]
              ELSE a1
        a3 == IF json_has(analysis, "intent")
              THEN [a2 EXCEPT !.working_memory = dict_set(@, "intent", d.intent)]
              ELSE a2
        a4 == IF json_has(analysis, "sentiment")
              THEN [a3 EXCEPT !.working_memory = dict_set(@, "sentiment", d.sentiment)]
              ELSE a3
    IN  IF analysis.type = "null" THEN [as |-> a0, exc |-> "TypeError"]
        ELSE IF json_has(analysis, "confidence") /\ d.confidence.type # "dict"
             THEN [as |-> a0, exc |-> "TypeError"]
        ELSE [as |-> a4, exc |-> "none"]

\* f"phase_{phase_name.lower()}"
confidence_key(phase_name) ==
    CASE phase_name = "Context Gathering" -> "phase_context gathering"
      [] phase_name = "Structure Development" -> "phase_structure development"
      [] phase_name = "Content Development" -> "phase_content development"
      [] phase_name = "Refinement" -> "phase_refinement"

get_phase_confidence(as, phase_name) ==
    LET key == confidence_key(phase_name)
    IN  IF key \in DOMAIN as.confidence THEN as.confidence[key] ELSE 0

\* reset() that leaves the turn list as it is
reset_keep_turns(as) ==
    [as EXCEPT !.current_topic = None,
               !.content_type = None,
               !.session_id = None,
               !.confidence = EmptyDict,
               !.working_memory = EmptyDict,
               !.last_analysis = [type |-> "dict", d |-> EmptyDict]]

reset(as) ==
    [as EXCEPT !.recent_messages = <<>>,
               !.current_topic = None,
               !.content_type = None,
               !.session_id = None,
               !.confidence = EmptyDict,
               !.working_memory = EmptyDict,
               !.last_analysis = [type |-> "dict", d |-> EmptyDict]]

-----------------------------------------------------------------------------
(* LLMClient (src/llm/client.py).  The Anthropic API is the environment:   *)
(* a call raises (network, timeout), answers with no content block,        *)
(* answers with text that is not JSON, or answers with a JSON value.       *)

AnalysisTransition ==
    Json("dict", [entities |-> <<"AI">>, intent |-> "inform", sentiment |-> "positive",
                  should_transition |-> TRUE, transition_message |-> "analysis",
                  confidence |-> Json("dict", [phase_completion |-> 85])])

AnalysisStay ==
    Json("dict", [entities |-> <<"AI">>, intent |-> "inform", sentiment |-> "neutral",
                  should_transition |-> FALSE, transition_message |-> "",
                  confidence |-> Json("dict", [phase_completion |-> 40])])

\* an object that lacks transition_message
AnalysisNoMessage == Json("dict", [should_transition |-> TRUE])

\* JSON documents that are not objects
AnalysisNull == Json("null", EmptyDict)

AnalysisList == Json("list", EmptyDict)

DefaultAnalysis ==
    Json("dict", [entities |-> <<>>, intent |-> "unknown", sentiment |-> "neutral",
                  should_transition |-> FALSE, transition_message |-> "",
                  confidence |-> Json("dict", [phase_completion |-> 0])])

\* What the API does on an analysis call, and on a question call
AnalyzeOutcomes == {"raise", "not_json", "transition", "stay", "no_message", "null", "list"}

GenerateOutcomes == {"raise", "text"}

\* json.loads(response.content[0].text)
json_loads(out) ==
    CASE out = "transition" -> AnalysisTransition
      [] out = "stay" -> AnalysisStay
      [] out = "no_message" -> AnalysisNoMessage
      [] out = "null" -> AnalysisNull
      [] out = "list" -> AnalysisList

\* analyze_input that lets the failure of the call reach its caller
analyze_input_raising(out) ==
    IF out \in {"raise", "not_json"}
    THEN [exc |-> "APIError", rv |-> AnalysisNull]
    ELSE [exc |-> "none", rv |-> json_loads(out)]

analyze_input(out) ==
    IF out \in {"raise", "not_json"}
    THEN [exc |-> "none", rv |-> DefaultAnalysis]
    ELSE [exc |-> "none", rv |-> json_loads(out)]

\* The text the model wrote, and
\* f"Could you tell me more about your content for the {current_phase} phase?"
GeneratedQuestion == [kind |-> "generated", phase |-> None, idx |-> 1]

DefaultQuestion(current_phase) == [kind |-> "default", phase |-> current_phase, idx |-> 1]

\* generate_question that lets the failure of the call reach its caller
generate_question_raising(out, current_phase) ==
    IF out = "text"
    THEN [exc |-> "none", rv |-> GeneratedQuestion]
    ELSE [exc |-> "APIError", rv |-> DefaultQuestion(current_phase)]

generate_question(out, current_phase) ==
    IF out = "text"
    THEN [exc |-> "none", rv |-> GeneratedQuestion]
    ELSE [exc |-> "none", rv |-> DefaultQuestion(current_phase)]

-----------------------------------------------------------------------------
(* InteractionEngine (src/engine/interaction.py).                          *)
(* A reply is the sequence of its parts; each part names the format string *)
(* that produced it and the values formatted into it.                      *)

NoText == [kind |-> "none", phase |-> None, idx |-> 0]

Seg(seg, q, s, n) == [seg |-> seg, q |-> q, s |-> s, n |-> n, plain |-> FALSE]

\* "[bold green]Question:[/bold green] [white]{question}[/white]"
QuestionSeg(question) == Seg("question", question, <<>>, 0)

\* "[bold blue]Welcome![/bold blue]\n\n" + welcome_message
WelcomeSeg(content_type, topic) == Seg("welcome", NoText, <<content_type, topic>>, 0)

\* _format_system_message(text, title)
SystemSeg(title, s, n) == Seg(title, NoText, s, n)

\* .replace("[bold yellow]", "") and the like: the same parts without markup
Plain(resp) == [i \in 1..Len(resp) |-> [resp[i] EXCEPT !.plain = TRUE]]

AddMessage(w, role, content) ==
    [w EXCEPT !.agent_state[1] = add_message(@, role, content, w.now),
              !.now = @ + 1]

\* random.choice(phase_prompts), by the draw w.r of the generator
random_choice(w, seq) == seq[((w.r - 1) % Len(seq)) + 1]

\* get_next_question that does not record the id of the question it persisted
get_next_question_unrecorded(w) ==
    LET current_phase == get_current_phase(w)
        phase_name == reverse_phase_map(current_phase)
        g == generate_question(w.gens[w.gen_calls + 1], phase_name)
        phase_prompts == get_phase_prompts(w)
        question ==
            IF w.use_llm /\ g.exc = "none" THEN g.rv
            ELSE random_choice(w, phase_prompts)
        w1 == IF w.use_llm THEN [w EXCEPT !.gen_calls = @ + 1] ELSE w
        a == add_question(w1, question, phase_name)
    IN  IF current_phase = None THEN Raise(w, "KeyError")
        ELSE IF a.exc # "none" THEN a
        ELSE Ok(a.w, <<QuestionSeg(question)>>)

get_next_question(w) ==
    LET current_phase == get_current_phase(w)
        phase_name == reverse_phase_map(current_phase)
        g == generate_question(w.gens[w.gen_calls + 1], phase_name)
        phase_prompts == get_phase_prompts(w)
        question ==
            IF w.use_llm /\ g.exc = "none" THEN g.rv
            ELSE random_choice(w, phase_prompts)
        w1 == IF w.use_llm THEN [w EXCEPT !.gen_calls = @ + 1] ELSE w
        a == add_question(w1, question, phase_name)
    IN  IF current_phase = None THEN Raise(w, "KeyError")
        ELSE IF a.exc # "none" THEN a
        ELSE Ok([a.w EXCEPT !.last_question_id = a.rv], <<QuestionSeg(question)>>)

keywords(current_phase) ==
    CASE current_phase = CONTEXT_GATHERING ->
            <<kw_next, kw_structure, kw_outline, kw_move_on, kw_enough_context>>
      [] current_phase = STRUCTURE_DEVELOPMENT ->
            <<kw_next, kw_content, kw_details, kw_expand, kw_flesh_out, kw_move_on>>
      [] current_phase = CONTENT_DEVELOPMENT ->
            <<kw_next, kw_refine, kw_review, kw_finalize, kw_polish, kw_revise>>
      [] OTHER -> <<>>

\* a keyword test on the text as typed, without lower-casing it
should_transition_phase_cased(w, text) ==
    LET kws == keywords(get_current_phase(w))
    IN  \E k \in DOMAIN kws : contains(text, kws[k])

_should_transition_phase(w, text) ==
    LET kws == keywords(get_current_phase(w))
        text_lower == lower(text)
    IN  \E k \in DOMAIN kws : contains(text_lower, kws[k])

\* current_phase.name.lower()
enum_name_lower(current_phase) ==
    CASE current_phase = CONTEXT_GATHERING -> "context_gathering"
      [] current_phase = STRUCTURE_DEVELOPMENT -> "structure_development"
      [] current_phase = CONTENT_DEVELOPMENT -> "content_development"
      [] current_phase = REFINEMENT -> "refinement"

\* _process_with_keywords that asks the question before it moves the phase
process_with_keywords_ask_first(w, text) ==
    LET current_phase == get_current_phase(w)
        next_phase_msg == Seg("next_phase_msg", NoText, <<enum_name_lower(current_phase)>>, 0)
        q == get_next_question(w)
        t == transition_to_next_phase(q.w)
    IN  IF _should_transition_phase(w, text)
        THEN IF q.exc # "none" THEN q
             ELSE IF t.exc # "none" THEN t
             ELSE Ok(t.w, <<next_phase_msg>> \o q.rv)
        ELSE get_next_question(w)

_process_with_keywords(w, text) ==
    LET current_phase == get_current_phase(w)
        next_phase_msg == Seg("next_phase_msg", NoText, <<enum_name_lower(current_phase)>>, 0)
        t == transition_to_next_phase(w)
        q == get_next_question(t.w)
    IN  IF _should_transition_phase(w, text)
        THEN IF t.exc # "none" THEN t
             ELSE IF q.exc # "none" THEN q
             ELSE Ok(q.w, <<next_phase_msg>> \o q.rv)
        ELSE get_next_question(w)

\* analysis.get(key, default)
json_get(analysis, key, default) ==
    IF key \in DOMAIN analysis.d THEN analysis.d[key] ELSE default

\* The try block of _process_with_llm, advancing also on a keyword of the phase
process_with_llm_try_or_keywords(w, text) ==
    LET current_phase == get_current_phase(w)
        phase_name == reverse_phase_map(current_phase)
        an == analyze_input(w.api)
        analysis == an.rv
        sa == set_analysis_result(w.agent_state[1], analysis)
        w1 == [w EXCEPT !.agent_state[1] = sa.as, !.api_calls = @ + 1]
        transition_message ==
            IF "transition_message" \in DOMAIN analysis.d
            THEN Seg("transition_message", NoText, <<analysis.d.transition_message>>, 0)
            ELSE Seg("transition_message", NoText, <<"default", phase_name>>, 0)
        t == transition_to_next_phase(w1)
        qt == get_next_question(t.w)
        q == get_next_question(w1)
    IN  IF current_phase = None THEN Raise(w, "KeyError")
        ELSE IF an.exc # "none" THEN Raise([w EXCEPT !.api_calls = @ + 1], an.exc)
        ELSE IF sa.exc # "none" THEN Raise(w1, sa.exc)
        ELSE IF analysis.type # "dict" THEN Raise(w1, "AttributeError")
        ELSE IF json_get(analysis, "should_transition", FALSE) \/ _should_transition_phase(w, text)
             THEN IF t.exc # "none" THEN t
                  ELSE IF qt.exc # "none" THEN qt
                  ELSE Ok(AddMessage(qt.w, "assistant",
                                     AssistantContent(<<transition_message>> \o qt.rv)),
                          <<transition_message>> \o qt.rv)
        ELSE IF q.exc # "none" THEN q
        ELSE Ok(AddMessage(q.w, "assistant", AssistantContent(q.rv)), q.rv)

\* The try block of _process_with_llm
process_with_llm_try(w, text) ==
    LET current_phase == get_current_phase(w)
        phase_name == reverse_phase_map(current_phase)
        an == analyze_input(w.api)
        analysis == an.rv
        sa == set_analysis_result(w.agent_state[1], analysis)
        w1 == [w EXCEPT !.agent_state[1] = sa.as, !.api_calls = @ + 1]
        transition_message ==
            IF "transition_message" \in DOMAIN analysis.d
            THEN Seg("transition_message", NoText, <<analysis.d.transition_message>>, 0)
            ELSE Seg("transition_message", NoText, <<"default", phase_name>>, 0)
        t == transition_to_next_phase(w1)
        qt == get_next_question(t.w)
        q == get_next_question(w1)
    IN  IF current_phase = None THEN Raise(w, "KeyError")
        ELSE IF an.exc # "none" THEN Raise([w EXCEPT !.api_calls = @ + 1], an.exc)
        ELSE IF sa.exc # "none" THEN Raise(w1, sa.exc)
        ELSE IF analysis.type # "dict" THEN Raise(w1, "AttributeError")
        ELSE IF json_get(analysis, "should_transition", FALSE)
             THEN IF t.exc # "none" THEN t
                  ELSE IF qt.exc # "none" THEN qt
                  ELSE Ok(AddMessage(qt.w, "assistant",
                                     AssistantContent(<<transition_message>> \o qt.rv)),
                          <<transition_message>> \o qt.rv)
        ELSE IF q.exc # "none" THEN q
        ELSE Ok(AddMessage(q.w, "assistant", AssistantContent(q.rv)), q.rv)

\* _process_with_llm whose except clause re-raises instead of falling back
process_with_llm_no_fallback(w, text) == process_with_llm_try(w, text)

\* _process_with_llm that runs the keyword policy after the try block whether
\* or not it raised
process_with_llm_then_keywords(w, text) ==
    LET b == process_with_llm_try(w, text)
    IN  _process_with_keywords(b.w, text)

_process_with_llm(w, text) ==
    LET b == process_with_llm_try(w, text)
    IN  IF b.exc # "none" THEN _process_with_keywords(b.w, text) ELSE b

\* _handle_command whose /status goes on to ask the phase's next question
handle_command_status_asks(w, text) ==
    LET command == lower(strip(text))
        current_phase == get_current_phase(w)
        phase_name == reverse_phase_map(current_phase)
        confidence == get_phase_confidence(w.agent_state[1], phase_name)
        t == transition_to_next_phase(w)
        moved_phase == get_current_phase(t.w)
        q == get_next_question(t.w)
        s == get_next_question(w)
    IN  CASE command = cmd_help -> Ok(w, <<SystemSeg("Help Commands", <<>>, 0)>>)
          [] command = cmd_status ->
                IF current_phase = None THEN Raise(w, "KeyError")
                ELSE IF s.exc # "none" THEN s
                ELSE IF w.use_llm
                     THEN Ok(s.w, <<SystemSeg("Status", <<phase_name, "Confidence">>, confidence)>>
                                  \o s.rv)
                ELSE Ok(s.w, <<SystemSeg("Status", <<phase_name>>, 0)>> \o s.rv)
          [] command = cmd_export -> Ok(w, <<SystemSeg("Export", <<>>, 0)>>)
          [] command = cmd_menu -> Ok(w, <<SystemSeg("Interactive Menu", <<>>, 0)>>)
          [] command = cmd_next ->
                IF t.exc # "none" THEN t
                ELSE IF t.rv
                     THEN IF moved_phase = None THEN Raise(t.w, "KeyError")
                          ELSE IF q.exc # "none" THEN q
                          ELSE Ok(q.w, <<SystemSeg("Phase Transition",
                                                   <<reverse_phase_map(moved_phase)>>, 0)>>
                                       \o q.rv)
                ELSE Ok(w, <<SystemSeg("Error", <<"Cannot transition to next phase">>, 0)>>)
          [] OTHER -> Ok(w, <<SystemSeg("Error", <<"Unknown command">>, 0)>>)

\* _handle_command whose /next announces the new phase without asking its
\* question
handle_command_next_silent(w, text) ==
    LET command == lower(strip(text))
        current_phase == get_current_phase(w)
        phase_name == reverse_phase_map(current_phase)
        confidence == get_phase_confidence(w.agent_state[1], phase_name)
        t == transition_to_next_phase(w)
        moved_phase == get_current_phase(t.w)
    IN  CASE command = cmd_help -> Ok(w, <<SystemSeg("Help Commands", <<>>, 0)>>)
          [] command = cmd_status ->
                IF current_phase = None THEN Raise(w, "KeyError")
                ELSE IF w.use_llm
                     THEN Ok(w, <<SystemSeg("Status", <<phase_name, "Confidence">>, confidence)>>)
                ELSE Ok(w, <<SystemSeg("Status", <<phase_name>>, 0)>>)
          [] command = cmd_export -> Ok(w, <<SystemSeg("Export", <<>>, 0)>>)
          [] command = cmd_menu -> Ok(w, <<SystemSeg("Interactive Menu", <<>>, 0)>>)
          [] command = cmd_next ->
                IF t.exc # "none" THEN t
                ELSE IF t.rv
                     THEN IF moved_phase = None THEN Raise(t.w, "KeyError")
                          ELSE Ok(t.w, <<SystemSeg("Phase Transition",
                                                   <<reverse_phase_map(moved_phase)>>, 0)>>)
                ELSE Ok(w, <<SystemSeg("Error", <<"Cannot transition to next phase">>, 0)>>)
          [] OTHER -> Ok(w, <<SystemSeg("Error", <<"Unknown command">>, 0)>>)

_handle_command(w, text) ==
    LET command == lower(strip(text))
        current_phase == get_current_phase(w)
        phase_name == reverse_phase_map(current_phase)
        confidence == get_phase_confidence(w.agent_state[1], phase_name)
        t == transition_to_next_phase(w)
        moved_phase == get_current_phase(t.w)
        q == get_next_question(t.w)
    IN  CASE command = cmd_help -> Ok(w, <<SystemSeg("Help Commands", <<>>, 0)>>)
          [] command = cmd_status ->
                IF current_phase = None THEN Raise(w, "KeyError")
                ELSE IF w.use_llm
                     THEN Ok(w, <<SystemSeg("Status", <<phase_name, "Confidence">>, confidence)>>)
                ELSE Ok(w, <<SystemSeg("Status", <<phase_name>>, 0)>>)
          [] command = cmd_export -> Ok(w, <<SystemSeg("Export", <<>>, 0)>>)
          [] command = cmd_menu -> Ok(w, <<SystemSeg("Interactive Menu", <<>>, 0)>>)
          [] command = cmd_next ->
                IF t.exc # "none" THEN t
                ELSE IF t.rv
                     THEN IF moved_phase = None THEN Raise(t.w, "KeyError")
                          ELSE IF q.exc # "none" THEN q
                          ELSE Ok(q.w, <<SystemSeg("Phase Transition",
                                                   <<reverse_phase_map(moved_phase)>>, 0)>>
                                       \o q.rv)
                ELSE Ok(w, <<SystemSeg("Error", <<"Cannot transition to next phase">>, 0)>>)
          [] OTHER -> Ok(w, <<SystemSeg("Error", <<"Unknown command">>, 0)>>)

\* process_user_input that puts the text into the window before it stores it
process_user_input_window_first(w, text) ==
    LET w0 == IF w.use_llm THEN AddMessage(w, "user", UserContent(text)) ELSE w
        a == add_user_input(w0, text, w.last_question_id)
    IN  IF a.exc # "none" THEN a
        ELSE IF startswith(text, <<"/">>) THEN _handle_command(a.w, text)
        ELSE IF w.use_llm THEN _process_with_llm(a.w, text)
        ELSE _process_with_keywords(a.w, text)

\* process_user_input that stores the input without the pending question
process_user_input_unlinked(w, text) ==
    LET a == add_user_input(w, text, 0)
        w1 == IF w.use_llm THEN AddMessage(a.w, "user", UserContent(text)) ELSE a.w
    IN  IF a.exc # "none" THEN a
        ELSE IF startswith(text, <<"/">>) THEN _handle_command(w1, text)
        ELSE IF w.use_llm THEN _process_with_llm(w1, text)
        ELSE _process_with_keywords(w1, text)

\* process_user_input that strips the text before looking for the slash
process_user_input_stripped(w, text) ==
    LET a == add_user_input(w, text, w.last_question_id)
        w1 == IF w.use_llm THEN AddMessage(a.w, "user", UserContent(text)) ELSE a.w
    IN  IF a.exc # "none" THEN a
        ELSE IF startswith(strip(text), <<"/">>) THEN _handle_command(w1, text)
        ELSE IF w.use_llm THEN _process_with_llm(w1, text)
        ELSE _process_with_keywords(w1, text)

\* process_user_input without the check for commands
process_user_input_no_commands(w, text) ==
    LET a == add_user_input(w, text, w.last_question_id)
        w1 == IF w.use_llm THEN AddMessage(a.w, "user", UserContent(text)) ELSE a.w
    IN  IF a.exc # "none" THEN a
        ELSE IF w.use_llm THEN _process_with_llm(w1, text)
        ELSE _process_with_keywords(w1, text)

process_user_input(w, text) ==
    LET a == add_user_input(w, text, w.last_question_id)
        w1 == IF w.use_llm THEN AddMessage(a.w, "user", UserContent(text)) ELSE a.w
    IN  IF a.exc # "none" THEN a
        ELSE IF startswith(text, <<"/">>) THEN _handle_command(w1, text)
        ELSE IF w.use_llm THEN _process_with_llm(w1, text)
        ELSE _process_with_keywords(w1, text)

start_session(w, content_type, topic) ==
    LET s == start_new_session(w, content_type, topic)
        w1 == IF w.use_llm
              THEN [s.w EXCEPT !.agent_state[1] =
                        [reset(@) EXCEPT !.session_id = w.engine_session_id,
                                         !.current_topic = topic,
                                         !.content_type = content_type]]
              ELSE s.w
        welcome == <<WelcomeSeg(content_type, topic)>>
        w2 == IF w.use_llm
              THEN AddMessage(w1, "assistant", AssistantContent(Plain(welcome)))
              ELSE w1
        q == get_next_question(w2)
        w3 == IF w.use_llm
              THEN AddMessage(q.w, "assistant", AssistantContent(Plain(q.rv)))
              ELSE q.w
    IN  IF s.exc # "none" THEN s
        ELSE IF q.exc # "none" THEN q
        ELSE Ok(w3, welcome \o q.rv)

\* InteractionEngine.load_state(state_data): [eng, rv]
InteractionEngine_load_state(engine, state_data) ==
    LET l == load_state_try(engine.agent_state[1], state_data)
    IN  IF ~engine.use_llm \/ DOMAIN state_data = {}
        THEN [eng |-> engine, rv |-> FALSE]
        ELSE IF l.exc # "none"
        THEN [eng |-> [engine EXCEPT !.agent_state[1] = l.as], rv |-> FALSE]
        ELSE [eng |-> [engine EXCEPT !.agent_state[1] = l.as,
                                     !.session_id = l.as.session_id],
              rv |-> TRUE]

\* self.interaction.resume_session(session_id): the class InteractionEngine
\* defines no resume_session, so the attribute lookup raises
resume_session(w, session_id) == Raise(w, "AttributeError")

-----------------------------------------------------------------------------
(* The state after construction, and the worlds handlers run in *)

EngineSessionId == "engine-uuid"

InteractionEngine(llm_client, prompt_manager) ==
    [llm_client |-> llm_client,
     prompt_manager |-> prompt_manager,
     last_question_id |-> 0,
     agent_state |-> IF llm_client
                     THEN <<[AgentState(DefaultCapacity) EXCEPT !.session_id = EngineSessionId]>>
                     ELSE <<>>,
     use_llm |-> llm_client /\ prompt_manager,
     session_id |-> EngineSessionId]

EmptyStore ==
    [contents |-> <<>>, phases |-> <<>>, current |-> {}, questions |-> <<>>, inputs |-> <<>>]

MemoryManager == [session_id |-> 0, current_phase_id |-> 0]

NoRet ==
    [op |-> "init", text |-> <<>>, name |-> None, exc |-> "none", ok |-> FALSE, id |-> 0,
     resp |-> <<>>, log |-> <<>>, before |-> None, api |-> None, gens |-> <<>>,
     snap |-> EmptyDict, loaded |-> <<>>, api_calls |-> 0, response_to |-> 0, seen |-> <<>>,
     window |-> <<>>]

MakeWorld(st, handle, engine, clock, failAt, persist, api, gens, r) ==
    [contents |-> st.contents, phases |-> st.phases, current |-> st.current,
     questions |-> st.questions, inputs |-> st.inputs,
     session_id |-> handle.session_id, current_phase_id |-> handle.current_phase_id,
     last_question_id |-> engine.last_question_id, agent_state |-> engine.agent_state,
     use_llm |-> engine.use_llm, engine_session_id |-> engine.session_id,
     now |-> clock,
     calls |-> 0, log |-> <<>>, failAt |-> failAt, persist |-> persist,
     api |-> api, api_calls |-> 0, gens |-> gens, gen_calls |-> 0, r |-> r]

World(failAt, persist, api, gens, r) ==
    MakeWorld(store, mm, eng, now, failAt, persist, api, gens, r)

\* A world in which the store accepts every write
Healthy == World(0, FALSE, "stay", <<"text", "text">>, 1)

StoreOf(w) ==
    [contents |-> w.contents, phases |-> w.phases, current |-> w.current,
     questions |-> w.questions, inputs |-> w.inputs]

HandleOf(w) == [session_id |-> w.session_id, current_phase_id |-> w.current_phase_id]

Commit(w) ==
    /\ store' = StoreOf(w)
    /\ mm' = HandleOf(w)
    /\ eng' = [eng EXCEPT !.last_question_id = w.last_question_id,
                          !.agent_state = w.agent_state]
    /\ now' = w.now

\* The environment's choices that the handler did not consume are not choices
Consumed(res, failAt, persist, api, gens) ==
    /\ failAt <= res.w.calls
    /\ persist => (failAt # 0 /\ failAt < res.w.calls)
    /\ res.w.api_calls = 0 => api = "stay"
    /\ \A i \in DOMAIN gens : i > res.w.gen_calls => gens[i] = "text"

Init ==
    /\ store = EmptyStore
    /\ mm = MemoryManager
    /\ \E llm_client \in BOOLEAN, prompt_manager \in BOOLEAN :
           eng = InteractionEngine(llm_client, prompt_manager)
    /\ now = 0
    /\ ret = NoRet
    /\ faults = 0
    /\ win = AgentState(DefaultCapacity)
    /\ hist = <<>>

-----------------------------------------------------------------------------
(* The application: InteractionEngine.start_session and process_user_input *)

\* The choices the environment has in a call: which write the store rejects
\* (0: none; Consumed drops the numbers beyond the writes the call issues),
\* what the analysis call and the question calls of the API do, and the
\* generator's draw.
FaultPoints == IF faults < MaxFaults THEN 0..MaxStoreCalls ELSE {0}

AnalyzeChoices(text) ==
    IF eng.use_llm /\ ~startswith(text, <<"/">>) THEN AnalyzeOutcomes ELSE {"stay"}

GenerateChoices(text, failAt) ==
    IF ~eng.use_llm THEN {<<"text", "text">>}
    ELSE IF failAt = 0 \/ startswith(text, <<"/">>)
         THEN {<<g, "text">> : g \in GenerateOutcomes}
    ELSE GenerateOutcomes \X GenerateOutcomes

\* Only the analyzer path goes on after the store rejected a write
PersistChoices(text, failAt) ==
    IF eng.use_llm /\ failAt # 0 /\ ~startswith(text, <<"/">>) THEN BOOLEAN ELSE {FALSE}

Draws ==
    IF eng.use_llm THEN {1}
    ELSE 1..(IF MaxDraw < NumPrompts THEN MaxDraw ELSE NumPrompts)

StartSessionStep ==
       \E content_type \in ContentTypes, topic \in Topics, r \in Draws :
       \E failAt \in FaultPoints :
       \E gens \in GenerateChoices(<<"/">>, failAt) :
       \E w \in {World(failAt, FALSE, "stay", gens, r)} :
       \E res \in {start_session(w, content_type, topic)} :
            /\ Consumed(res, failAt, FALSE, "stay", gens)
            /\ Commit(res.w)
            /\ ret' = [NoRet EXCEPT !.op = "start_session",
                                    !.text = <<content_type, topic>>,
                                    !.exc = res.exc,
                                    !.resp = IF res.exc = "none" THEN res.rv ELSE <<>>,
                                    !.log = res.w.log,
                                    !.before = MemoryManager_get_current_phase(w),
                                    !.gens = gens,
                                    !.window = w.agent_state]
            /\ faults' = IF failAt = 0 THEN faults ELSE faults + 1
            /\ UNCHANGED <<win, hist>>

StartSession ==
    /\ Len(store.contents) < MaxSessions
    /\ StartSessionStep

ProcessUserInputOf(texts) ==
       \E text \in texts, r \in Draws :
       \E api \in AnalyzeChoices(text) :
       \E failAt \in FaultPoints :
       \E persist \in PersistChoices(text, failAt), gens \in GenerateChoices(text, failAt) :
       \E w \in {World(failAt, persist, api, gens, r)} :
       \E res \in {process_user_input(w, text)} :
            /\ Consumed(res, failAt, persist, api, gens)
            /\ Commit(res.w)
            /\ ret' = [NoRet EXCEPT !.op = "process_user_input",
                                    !.text = text,
                                    !.exc = res.exc,
                                    !.resp = IF res.exc = "none" THEN res.rv ELSE <<>>,
                                    !.log = res.w.log,
                                    !.before = MemoryManager_get_current_phase(w),
                                    !.api = api,
                                    !.gens = gens,
                                    !.api_calls = res.w.api_calls]
            /\ faults' = IF failAt = 0 THEN faults ELSE faults + 1
            /\ UNCHANGED <<win, hist>>

ProcessUserInput ==
    /\ Len(store.inputs) < MaxTurns
    /\ ProcessUserInputOf(EngineTexts)

\* The ids a caller may ask to resume: an id resolves once the store holds
\* the session of that number
SessionIds == 1..MaxSessions

ResumeSession ==
    \E session_id \in SessionIds :
    \E w \in {World(0, FALSE, "stay", <<"text", "text">>, 1)} :
    \E res \in {resume_session(w, session_id)} :
        /\ Commit(res.w)
        /\ ret' = [NoRet EXCEPT !.op = "resume_session",
                                !.id = session_id,
                                !.exc = res.exc,
                                !.resp = IF res.exc = "none" THEN res.rv ELSE <<>>,
                                !.log = res.w.log,
                                !.before = MemoryManager_get_current_phase(w)]
        /\ UNCHANGED <<faults, win, hist>>

Next == StartSession \/ ProcessUserInput \/ ResumeSession

Spec == Init /\ [][Next]_vars

-----------------------------------------------------------------------------
(* The store and the controller driven directly, as tests/test_memory.py   *)
(* drives them: MemoryManager.start_new_session, transition_phase and      *)
(* PhaseController.transition_to_next_phase.                               *)

InitStore ==
    /\ Init
    /\ eng = InteractionEngine(FALSE, FALSE)

NoEnv(failAt) == World(failAt, FALSE, "stay", <<"text", "text">>, 1)

CallStartNewSession ==
    /\ Len(store.contents) < MaxSessions
    /\ \E content_type \in ContentTypes, topic \in Topics :
       \E failAt \in FaultPoints :
       \E w \in {NoEnv(failAt)} :
       \E res \in {start_new_session(w, content_type, topic)} :
            /\ Consumed(res, failAt, FALSE, "stay", <<"text", "text">>)
            /\ Commit(res.w)
            /\ ret' = [NoRet EXCEPT !.op = "start_new_session",
                                    !.text = <<content_type, topic>>,
                                    !.exc = res.exc,
                                    !.id = IF res.exc = "none" THEN res.rv ELSE 0,
                                    !.log = res.w.log,
                                    !.before = MemoryManager_get_current_phase(w)]
            /\ faults' = IF failAt = 0 THEN faults ELSE faults + 1
            /\ UNCHANGED <<win, hist>>

CallTransitionPhase ==
    /\ Len(store.phases) < MaxPhases
    /\ \E new_phase_name \in PhaseNames :
       \E failAt \in FaultPoints :
       \E w \in {NoEnv(failAt)} :
       \E res \in {transition_phase(w, new_phase_name)} :
            /\ Consumed(res, failAt, FALSE, "stay", <<"text", "text">>)
            /\ Commit(res.w)
            /\ ret' = [NoRet EXCEPT !.op = "transition_phase",
                                    !.name = new_phase_name,
                                    !.exc = res.exc,
                                    !.id = IF res.exc = "none" THEN res.rv ELSE 0,
                                    !.log = res.w.log,
                                    !.before = MemoryManager_get_current_phase(w)]
            /\ faults' = IF failAt = 0 THEN faults ELSE faults + 1
            /\ UNCHANGED <<win, hist>>

CallTransitionToNextPhase ==
    /\ Len(store.phases) < MaxPhases
    /\ \E failAt \in FaultPoints :
       \E w \in {NoEnv(failAt)} :
       \E res \in {transition_to_next_phase(w)} :
            /\ Consumed(res, failAt, FALSE, "stay", <<"text", "text">>)
            /\ Commit(res.w)
            /\ ret' = [NoRet EXCEPT !.op = "transition_to_next_phase",
                                    !.exc = res.exc,
                                    !.ok = IF res.exc = "none" THEN res.rv ELSE FALSE,
                                    !.log = res.w.log,
                                    !.before = MemoryManager_get_current_phase(w)]
            /\ faults' = IF failAt = 0 THEN faults ELSE faults + 1
            /\ UNCHANGED <<win, hist>>

NextStore == CallStartNewSession \/ CallTransitionPhase \/ CallTransitionToNextPhase

SpecStore == InitStore /\ [][NextStore]_vars

-----------------------------------------------------------------------------
(* The keyword policy alone: InteractionEngine._should_transition_phase    *)
(* asked about a text, with the session in each phase the store can hold.  *)

FreshWorld ==
    MakeWorld(EmptyStore, MemoryManager, InteractionEngine(FALSE, FALSE), 0,
              0, FALSE, "stay", <<"text", "text">>, 1)

Started == start_new_session(FreshWorld, "blog_post", "Test Topic").w

RECURSIVE Advance(_, _)
Advance(w, k) == IF k = 0 THEN w ELSE Advance(transition_to_next_phase(w).w, k - 1)

\* The session in its k-th phase; without a current phase, after the store
\* rejected the second write of a transition; in a phase named by a direct
\* transition_phase call
PolicyWorld(k) ==
    CASE k \in 0..3 -> Advance(Started, k)
      [] k = 4 -> transition_phase([Started EXCEPT !.calls = 0, !.failAt = 2],
                                   "Structure Development").w
      [] k = 5 -> transition_phase(Started, "Archive").w

Alphabet == {"n", "e", "x", "t", "N"}

Strings(n) == UNION {[1..k -> Alphabet] : k \in 0..n}

PolicyTexts ==
    {txt_lets_move_on, txt_i_like_cats, txt_NEXT, txt_Please_Refine, txt_add_details,
     txt_slash_next, txt_slash_Next_sp,
     kw_next, kw_structure, kw_outline, kw_move_on, kw_enough_context, kw_content,
     kw_details, kw_expand, kw_flesh_out, kw_refine, kw_review, kw_finalize, kw_polish,
     kw_revise}
    \cup Strings(MaxLen)

InitPolicy ==
    /\ \E k \in 0..5 :
        /\ store = StoreOf(PolicyWorld(k))
        /\ mm = HandleOf(PolicyWorld(k))
    /\ eng = InteractionEngine(FALSE, FALSE)
    /\ now = 0
    /\ ret = NoRet
    /\ faults = 0
    /\ win = AgentState(DefaultCapacity)
    /\ hist = <<>>

ShouldTransitionPhase ==
    /\ ret = NoRet
    /\ \E text \in PolicyTexts :
        /\ ret' = [NoRet EXCEPT !.op = "_should_transition_phase",
                                !.text = text,
                                !.ok = _should_transition_phase(NoEnv(0), text),
                                !.before = MemoryManager_get_current_phase(NoEnv(0))]
        /\ UNCHANGED <<store, mm, eng, now, faults, win, hist>>

NextPolicy == ShouldTransitionPhase

SpecPolicy == InitPolicy /\ [][NextPolicy]_vars

-----------------------------------------------------------------------------
(* The context window alone: an AgentState of some capacity, appended to *)

Capacities == (1..MaxCapacity) \cup {DefaultCapacity}

Turns ==
    {[role |-> "user", content |-> UserContent(txt_i_like_cats)],
     [role |-> "assistant", content |-> AssistantContent(<<QuestionSeg(GeneratedQuestion)>>)]}

InitWindow ==
    /\ store = EmptyStore
    /\ mm = MemoryManager
    /\ eng = InteractionEngine(FALSE, FALSE)
    /\ now = 0
    /\ ret = NoRet
    /\ faults = 0
    /\ \E c \in Capacities : win = AgentState(c)
    /\ hist = <<>>

AddMessageCall ==
    /\ Len(hist) < MaxAppends
    /\ \E turn \in Turns :
        /\ win' = add_message(win, turn.role, turn.content, now)
        /\ hist' = Append(hist, Message(turn.role, turn.content, now, EmptyDict))
    /\ now' = now + 1
    /\ UNCHANGED <<store, mm, eng, ret, faults>>

NextWindow == AddMessageCall

SpecWindow == InitWindow /\ [][NextWindow]_vars

-----------------------------------------------------------------------------
(* Snapshots of the context window: a window is built by add_message and   *)
(* set_analysis_result, then saved and loaded into a fresh window as       *)
(* tests/test_llm.py does, or made to load a snapshot read from storage.   *)

\* Entries of a stored recent_messages list, well-formed and not
StoredUser ==
    [role |-> "user", content |-> UserContent(txt_i_like_cats),
     timestamp |-> <<0>>, metadata |-> EmptyDict]

StoredAssistant ==
    [role |-> "assistant", content |-> AssistantContent(<<QuestionSeg(GeneratedQuestion)>>),
     timestamp |-> <<0, 7>>]

StoredNoRole == [content |-> UserContent(txt_NEXT), timestamp |-> <<0, 1>>]

StoredNoContent == [role |-> "user", timestamp |-> <<0, 2>>]

StoredNoTimestamp == [role |-> "user", content |-> UserContent(txt_lets_move_on)]

StoredBadTimestamp ==
    [role |-> "user", content |-> UserContent(txt_lets_move_on), timestamp |-> <<>>]

StoredTurns ==
    {StoredUser, StoredAssistant, StoredNoRole, StoredNoContent, StoredNoTimestamp,
     StoredBadTimestamp}

Snapshots ==
    UNION {{[recent_messages |-> msgs],
            [session_id |-> EngineSessionId, current_topic |-> "Test Topic",
             content_type |-> "blog_post",
             confidence |-> [phase_completion |-> 85],
             working_memory |-> [intent |-> "inform"],
             recent_messages |-> msgs]} :
           msgs \in UNION {[1..k -> StoredTurns] : k \in 0..MaxSaved}}

InitSnapshot ==
    /\ store = EmptyStore
    /\ mm = MemoryManager
    /\ eng = InteractionEngine(TRUE, TRUE)
    /\ now = 0
    /\ ret = NoRet
    /\ faults = 0
    /\ \E started \in BOOLEAN :
          win = IF started
                THEN [AgentState(DefaultCapacity) EXCEPT !.session_id = EngineSessionId,
                                                         !.current_topic = "Test Topic",
                                                         !.content_type = "blog_post"]
                ELSE AgentState(DefaultCapacity)
    /\ hist = <<>>

SnapAddMessage ==
    /\ ret.op = "init"
    /\ Len(hist) < MaxSaved
    /\ AddMessageCall

SetAnalysisResultCall ==
    /\ ret.op = "init"
    /\ \E out \in {"transition", "stay", "no_message", "null"} :
          win' = set_analysis_result(win, json_loads(out)).as
    /\ UNCHANGED <<store, mm, eng, now, ret, faults, hist>>

\* state_data = agent_state.save_state(); AgentState().load_state(state_data)
SaveThenLoad ==
    /\ ret.op = "init"
    /\ \E state_data \in {save_state(win)} :
          ret' = [NoRet EXCEPT !.op = "save_load",
                               !.snap = state_data,
                               !.loaded = <<load_state(AgentState(DefaultCapacity),
                                                       state_data)>>]
    /\ UNCHANGED <<store, mm, eng, now, faults, win, hist>>

LoadStateCall ==
    /\ ret.op = "init"
    /\ \E state_data \in Snapshots :
        /\ win' = load_state(win, state_data)
        /\ ret' = [NoRet EXCEPT !.op = "load_state", !.snap = state_data]
    /\ UNCHANGED <<store, mm, eng, now, faults, hist>>

NextSnapshot == SnapAddMessage \/ SetAnalysisResultCall \/ SaveThenLoad \/ LoadStateCall

SpecSnapshot == InitSnapshot /\ [][NextSnapshot]_vars

-----------------------------------------------------------------------------
(* The commands: one input typed at the prompt of an engine that is in any
   of its phases *)

EngineFresh(llm_client, prompt_manager) ==
    MakeWorld(EmptyStore, MemoryManager, InteractionEngine(llm_client, prompt_manager), 0,
              0, FALSE, "stay", <<"text", "text">>, 1)

\* The world a handler left, as the next handler finds it
Rested(w) ==
    [w EXCEPT !.calls = 0, !.log = <<>>, !.failAt = 0, !.persist = FALSE,
              !.api_calls = 0, !.gen_calls = 0]

EngineStarted(llm_client, prompt_manager) ==
    Rested(start_session(EngineFresh(llm_client, prompt_manager), "blog_post", "Test Topic").w)

RECURSIVE EngineNext(_, _)
EngineNext(w, k) ==
    IF k = 0 THEN w ELSE EngineNext(Rested(process_user_input(w, cmd_next).w), k - 1)

\* The engine before its session started (k = -1); after k /next commands;
\* and after a /next during which the store rejected the write that marks the
\* new phase current (k = 4)
CommandWorld(llm_client, prompt_manager, k) ==
    CASE k = -1 -> EngineFresh(llm_client, prompt_manager)
      [] k \in 0..3 -> EngineNext(EngineStarted(llm_client, prompt_manager), k)
      [] k = 4 -> Rested(process_user_input(
                             [EngineStarted(llm_client, prompt_manager) EXCEPT !.failAt = 4],
                             cmd_next).w)

InitCommands ==
    /\ \E llm_client \in BOOLEAN, prompt_manager \in BOOLEAN, k \in -1..4 :
       \E w \in {CommandWorld(llm_client, prompt_manager, k)} :
            /\ store = StoreOf(w)
            /\ mm = HandleOf(w)
            /\ eng = [InteractionEngine(llm_client, prompt_manager)
                         EXCEPT !.last_question_id = w.last_question_id,
                                !.agent_state = w.agent_state]
            /\ now = w.now
    /\ ret = NoRet
    /\ faults = 0
    /\ win = AgentState(DefaultCapacity)
    /\ hist = <<>>

ProcessCommand ==
    /\ ret.op = "init"
    /\ ProcessUserInputOf(CommandTexts)

NextCommands == ProcessCommand

SpecCommands == InitCommands /\ [][NextCommands]_vars

-----------------------------------------------------------------------------
(* The records of a session: MemoryManager.add_question and add_user_input
   called directly on the handle *)

\* The question ids a caller passes: None (0), the ids of the questions there
\* can be, and an id that names no question
ResponseTos == 0..(MaxTurns + 1)

InputTexts == {txt_i_like_cats, txt_slash_status}

CallAddQuestion ==
    /\ Len(store.questions) < MaxTurns
    /\ \E r \in 1..MaxDraw, intent \in {None, "Context Gathering"} :
       \E failAt \in FaultPoints :
       \E w \in {NoEnv(failAt)} :
       \E res \in {add_question(w, Prompt("Context Gathering", r), intent)} :
            /\ Consumed(res, failAt, FALSE, "stay", <<"text", "text">>)
            /\ Commit(res.w)
            /\ ret' = [NoRet EXCEPT !.op = "add_question",
                                    !.name = intent,
                                    !.exc = res.exc,
                                    !.id = IF res.exc = "none" THEN res.rv ELSE 0,
                                    !.log = res.w.log]
            /\ faults' = IF failAt = 0 THEN faults ELSE faults + 1
            /\ UNCHANGED <<win, hist>>

CallAddUserInput ==
    /\ Len(store.inputs) < MaxTurns
    /\ \E text \in InputTexts, response_to \in ResponseTos :
       \E failAt \in FaultPoints :
       \E w \in {NoEnv(failAt)} :
       \E res \in {add_user_input(w, text, response_to)} :
            /\ Consumed(res, failAt, FALSE, "stay", <<"text", "text">>)
            /\ Commit(res.w)
            /\ ret' = [NoRet EXCEPT !.op = "add_user_input",
                                    !.text = text,
                                    !.response_to = response_to,
                                    !.exc = res.exc,
                                    !.id = IF res.exc = "none" THEN res.rv ELSE 0,
                                    !.log = res.w.log]
            /\ faults' = IF failAt = 0 THEN faults ELSE faults + 1
            /\ UNCHANGED <<win, hist>>

NextRecords == CallStartNewSession \/ CallAddQuestion \/ CallAddUserInput

SpecRecords == InitStore /\ [][NextRecords]_vars

-----------------------------------------------------------------------------
(* The sessions of a store: a handle that starts sessions, moves them through
   the phases, asks questions and loads a stored session *)

AnyContentTypes == ContentTypes \cup {""}

AnyTopics == Topics \cup {""}

StoredIds == 1..(MaxStored + 1)

CallStartNewSessionOf(types, topics) ==
    /\ Len(store.contents) < MaxStored
    /\ \E content_type \in types, topic \in topics :
       \E failAt \in FaultPoints :
       \E w \in {NoEnv(failAt)} :
       \E res \in {start_new_session(w, content_type, topic)} :
            /\ Consumed(res, failAt, FALSE, "stay", <<"text", "text">>)
            /\ Commit(res.w)
            /\ ret' = [NoRet EXCEPT !.op = "start_new_session",
                                    !.text = <<content_type, topic>>,
                                    !.exc = res.exc,
                                    !.id = IF res.exc = "none" THEN res.rv ELSE 0,
                                    !.log = res.w.log]
            /\ faults' = IF failAt = 0 THEN faults ELSE faults + 1
            /\ UNCHANGED <<win, hist>>

CallLoadSession ==
    \E session_id \in StoredIds :
    \E w \in {NoEnv(0)} :
    \E res \in {load_session(w, session_id)} :
        /\ Commit(res.w)
        /\ ret' = [NoRet EXCEPT !.op = "load_session",
                                !.id = session_id,
                                !.exc = res.exc,
                                !.loaded = res.rv]
        /\ UNCHANGED <<faults, win, hist>>

CallStartStored == CallStartNewSessionOf(ContentTypes, Topics)

NextSessions ==
    CallStartStored \/ CallTransitionToNextPhase \/ CallAddQuestion \/ CallLoadSession

SpecSessions == InitStore /\ [][NextSessions]_vars

\* The same handle given any content type and topic, the empty ones too
CallStartNewSessionAny == CallStartNewSessionOf(AnyContentTypes, AnyTopics)

NextValidation == CallStartNewSessionAny \/ CallLoadSession \/ CallAddUserInput

SpecValidation == InitStore /\ [][NextValidation]_vars

-----------------------------------------------------------------------------
(* A writer and a reader on one store: the handle that runs transition_phase
   as its two auto-commit writes, and a second handle on the same session
   that reads between them.  ret.op is the writer's position, ret.seen what
   the reader was given. *)

InFlight == ret.op = "transition_phase.end"

TransitionPhaseEnd ==
    /\ ~InFlight
    /\ Len(store.phases) < MaxPhases
    /\ mm.session_id \in 1..Len(store.contents)
    /\ \E new_phase_name \in PhaseNames :
       \E w \in {NoEnv(0)} :
       \E res \in {transition_phase_end(w)} :
            /\ Commit(res.w)
            /\ ret' = [NoRet EXCEPT !.op = "transition_phase.end",
                                    !.name = new_phase_name,
                                    !.log = res.w.log,
                                    !.before = MemoryManager_get_current_phase(w)]
            /\ UNCHANGED <<faults, win, hist>>

TransitionPhaseCreate ==
    /\ InFlight
    /\ \E w \in {NoEnv(0)} :
       \E res \in {transition_phase_create(w, ret.name)} :
            /\ Commit(res.w)
            /\ ret' = [NoRet EXCEPT !.op = "transition_phase",
                                    !.name = ret.name,
                                    !.exc = res.exc,
                                    !.id = res.rv,
                                    !.log = ret.log \o res.w.log,
                                    !.before = ret.before,
                                    !.seen = ret.seen]
            /\ UNCHANGED <<faults, win, hist>>

\* What the reader's call returned, and whether the writer was between its
\* writes
Observation(call, session_id, value) ==
    [call |-> call, session_id |-> session_id, value |-> value, in_flight |-> InFlight]

ReaderGetCurrentPhase ==
    /\ Len(ret.seen) < MaxReads
    /\ \E session_id \in 1..Len(store.contents) :
       \E w \in {[NoEnv(0) EXCEPT !.session_id = session_id]} :
            ret' = [ret EXCEPT !.seen = Append(@, Observation("get_current_phase", session_id,
                                                              <<MemoryManager_get_current_phase(w)>>))]
    /\ UNCHANGED <<store, mm, eng, now, faults, win, hist>>

ReaderListSessions ==
    /\ Len(ret.seen) < MaxReads
    /\ store.contents # <<>>
    /\ \E w \in {NoEnv(0)} :
            ret' = [ret EXCEPT !.seen = Append(@, Observation("list_sessions", 0,
                                                              list_sessions(w)))]
    /\ UNCHANGED <<store, mm, eng, now, faults, win, hist>>

ReaderLoadSession ==
    /\ Len(ret.seen) < MaxReads
    /\ \E session_id \in 1..Len(store.contents) :
       \E w \in {NoEnv(0)} :
            ret' = [ret EXCEPT !.seen = Append(@, Observation("load_session", session_id,
                                                              load_session(w, session_id).rv))]
    /\ UNCHANGED <<store, mm, eng, now, faults, win, hist>>

WriterStartNewSession == ~InFlight /\ CallStartNewSession

NextReaders ==
    \/ WriterStartNewSession
    \/ TransitionPhaseEnd
    \/ TransitionPhaseCreate
    \/ ReaderGetCurrentPhase
    \/ ReaderListSessions
    \/ ReaderLoadSession

SpecReaders == InitStore /\ [][NextReaders]_vars

-----------------------------------------------------------------------------
(* One engine instance reused: start_session called on an engine that already
   ran a session, the window's reset() called on its own, and the input typed
   after the second start_session *)

RestartSession ==
    /\ ret.op = "init"
    /\ StartSessionStep

\* self.agent_state.reset()
ResetWindow ==
    /\ ret.op = "init"
    /\ eng.llm_client
    /\ eng' = [eng EXCEPT !.agent_state[1] = reset(@)]
    /\ ret' = [NoRet EXCEPT !.op = "reset", !.window = eng.agent_state]
    /\ UNCHANGED <<store, mm, now, faults, win, hist>>

\* The snapshots a caller hands to load_state: {}, full snapshots of another
\* session whose "recent_messages" is a list, null or a number, and one
\* without the key
EngineSnapshots ==
    {EmptyDict, [session_id |-> "other-uuid"]}
    \cup {[session_id |-> "other-uuid", current_topic |-> "Other Topic",
           content_type |-> "essay",
           confidence |-> [phase_completion |-> 85],
           working_memory |-> [intent |-> "inform"],
           recent_messages |-> msgs_data] :
          msgs_data \in {Json("list", <<>>), Json("list", <<StoredUser, StoredNoRole>>),
                         Json("null", <<>>), Json("number", <<>>)}}

LoadState ==
    /\ ret.op = "init"
    /\ \E state_data \in EngineSnapshots :
       \E res \in {InteractionEngine_load_state(eng, state_data)} :
        /\ eng' = res.eng
        /\ ret' = [NoRet EXCEPT !.op = "load_state",
                                !.ok = res.rv,
                                !.snap = state_data,
                                !.window = eng.agent_state,
                                !.before = eng.session_id]
    /\ UNCHANGED <<store, mm, now, faults, win, hist>>

RestartTexts == {txt_i_like_cats}

InputAfterRestart ==
    /\ ret.op = "start_session"
    /\ ProcessUserInputOf(RestartTexts)

NextRestart == RestartSession \/ ResetWindow \/ InputAfterRestart \/ LoadState

SpecRestart == InitCommands /\ [][NextRestart]_vars

-----------------------------------------------------------------------------
(* The context window of a small capacity under add_message, load_state and
   reset in any order *)

CapacityAddMessage ==
    /\ Len(hist) <= MaxSaved
    /\ AddMessageCall

CapacityLoadState ==
    /\ ret.op = "init"
    /\ \E state_data \in Snapshots :
        /\ win' = load_state(win, state_data)
        /\ ret' = [NoRet EXCEPT !.op = "load_state", !.snap = state_data]
    /\ UNCHANGED <<store, mm, eng, now, faults, hist>>

CapacityReset ==
    /\ win' = reset(win)
    /\ UNCHANGED <<store, mm, eng, now, ret, faults, hist>>

NextCapacity == CapacityAddMessage \/ CapacityLoadState \/ CapacityReset

SpecCapacity == InitWindow /\ [][NextCapacity]_vars

-----------------------------------------------------------------------------
(* The dict objects of windows and snapshots.  self.confidence and
   self.working_memory are references to dict objects: hist is the heap of
   these objects, and here a window or a snapshot holds in "confidence" and
   "working_memory" the position of the object in the heap.  win is the
   window the snapshot ret.snap is taken from, ret.seen what the snapshot
   read when it was taken, ret.loaded the window restored from it. *)

MaxObjects == 6

\* The window or snapshot x as it reads, the objects looked up in the heap
Deref(heap, x) ==
    [x EXCEPT !.confidence = heap[@], !.working_memory = heap[@]]

\* AgentState(): the constructor makes two new dict objects
NewAgentState(heap, max_context_messages) ==
    [heap |-> heap \o <<EmptyDict, EmptyDict>>,
     as |-> [AgentState(max_context_messages) EXCEPT !.confidence = Len(heap) + 1,
                                                     !.working_memory = Len(heap) + 2]]

\* self.confidence.update(...), self.working_memory[...] = ...: the objects
\* the window refers to change in place
set_analysis_result_in_place(heap, as, analysis) ==
    LET v == set_analysis_result(Deref(heap, as), analysis).as
    IN  [heap |-> [heap EXCEPT ![as.confidence] = v.confidence,
                               ![as.working_memory] = v.working_memory],
         as |-> [as EXCEPT !.last_analysis = v.last_analysis]]

\* self.confidence = {}, self.working_memory = {}: the window refers to two
\* new objects, the old ones are left as they are
reset_rebinding(heap, as) ==
    [heap |-> heap \o <<EmptyDict, EmptyDict>>,
     as |-> [reset(as) EXCEPT !.confidence = Len(heap) + 1,
                              !.working_memory = Len(heap) + 2]]

InitShared ==
    /\ store = EmptyStore
    /\ mm = MemoryManager
    /\ eng = InteractionEngine(FALSE, FALSE)
    /\ now = 0
    /\ ret = NoRet
    /\ faults = 0
    /\ \E a \in {NewAgentState(<<>>, DefaultCapacity)} :
          /\ win = a.as
          /\ hist = a.heap

SharedAddMessage ==
    /\ Len(win.recent_messages) < MaxSaved
    /\ \E turn \in Turns : win' = add_message(win, turn.role, turn.content, now)
    /\ now' = now + 1
    /\ UNCHANGED <<store, mm, eng, ret, faults, hist>>

SharedSetAnalysisResult ==
    \E out \in {"transition", "stay", "no_message"} :
    \E a \in {set_analysis_result_in_place(hist, win, json_loads(out))} :
        /\ win' = a.as
        /\ hist' = a.heap
        /\ UNCHANGED <<store, mm, eng, now, ret, faults>>

SharedReset ==
    /\ Len(hist) < MaxObjects
    /\ \E a \in {reset_rebinding(hist, win)} :
        /\ win' = a.as
        /\ hist' = a.heap
    /\ UNCHANGED <<store, mm, eng, now, ret, faults>>

\* state_data = agent_state.save_state()
SharedSaveState ==
    /\ ret.op = "init"
    /\ \E state_data \in {save_state(win)} :
          ret' = [NoRet EXCEPT !.op = "save_state",
                               !.snap = state_data,
                               !.seen = <<Deref(hist, state_data)>>]
    /\ UNCHANGED <<store, mm, eng, now, faults, win, hist>>

\* restored = AgentState(); restored.load_state(state_data)
SharedLoadState ==
    /\ ret.op = "save_state"
    /\ ret.loaded = <<>>
    /\ Len(hist) < MaxObjects
    /\ \E a \in {NewAgentState(hist, DefaultCapacity)} :
        /\ ret' = [ret EXCEPT !.loaded = <<load_state(a.as, ret.snap)>>]
        /\ hist' = a.heap
    /\ UNCHANGED <<store, mm, eng, now, faults, win>>

\* restored.set_analysis_result(analysis)
SharedSetAnalysisResultRestored ==
    /\ ret.loaded # <<>>
    /\ \E out \in {"transition", "stay"} :
       \E a \in {set_analysis_result_in_place(hist, ret.loaded[1], json_loads(out))} :
        /\ ret' = [ret EXCEPT !.loaded = <<a.as>>]
        /\ hist' = a.heap
    /\ UNCHANGED <<store, mm, eng, now, faults, win>>

NextShared ==
    \/ SharedAddMessage
    \/ SharedSetAnalysisResult
    \/ SharedReset
    \/ SharedSaveState
    \/ SharedLoadState
    \/ SharedSetAnalysisResultRestored

SpecShared == InitShared /\ [][NextShared]_vars

-----------------------------------------------------------------------------
(* Properties *)

\* What a get_current_phase() issued now on the handle would return
CurrentPhaseName == MemoryManager_get_current_phase(NoEnv(0))

\* The store accepted every write of the last call
NoWriteRejected == \A i \in DOMAIN ret.log : ~ret.log[i].failed

Writes(op) == {i \in DOMAIN ret.log : ret.log[i].op = op}

NextName(name) ==
    CASE name = "Context Gathering" -> "Structure Development"
      [] name = "Structure Development" -> "Content Development"
      [] name = "Content Development" -> "Refinement"
      [] OTHER -> None

\* C1: a transition_to_next_phase call whose writes the store accepts returns
\* true from Context Gathering, Structure Development and Content Development
\* and makes exactly the next phase of the fixed order the one current phase,
\* adding one Phase record; from Refinement it returns false, issues no store
\* write and leaves the store and the handle as they were.
C1_TransitionToNextPhase ==
    [][(ret'.op = "transition_to_next_phase" /\ NoWriteRejected')
        => /\ CurrentPhaseName \in PhaseNames \ {"Refinement"}
                => /\ ret'.exc = "none" /\ ret'.ok
                   /\ CurrentPhaseName' = NextName(CurrentPhaseName)
                   /\ Cardinality(CurrentPhases(store', mm'.session_id)) = 1
                   /\ Len(store'.phases) = Len(store.phases) + 1
           /\ CurrentPhaseName = "Refinement"
                => /\ ret'.exc = "none" /\ ~ret'.ok
                   /\ ret'.log = <<>>
                   /\ CurrentPhaseName' = "Refinement"
                   /\ store' = store /\ mm' = mm]_vars

\* C1 witness: the four phases were opened in order and a further call from
\* Refinement returned false
C1_Witness ==
    /\ ret.op = "transition_to_next_phase" /\ ret.exc = "none" /\ ~ret.ok
    /\ ret.before = "Refinement"
    /\ Len(store.phases) = 4
    /\ \A p \in 1..3 : store.phases[p + 1].name = NextName(store.phases[p].name)

\* C2: every session holds exactly one CURRENT_PHASE relation in every
\* reachable state, also after transition_phase failed on one of its writes.
C2_ExactlyOneCurrentPhase ==
    \A c \in 1..Len(store.contents) : Cardinality(CurrentPhases(store, c)) = 1

\* C3: after a transition_phase(new_name) that returned, on a session with a
\* current phase, get_current_phase() returns new_name, the phase that was
\* current is ended and no longer current, exactly one Phase record was added,
\* and the handle's current_phase_id is the id of that record.
C3_TransitionPhase ==
    [][(/\ ret'.op = "transition_phase" /\ ret'.exc = "none"
        /\ CurrentPhases(store, mm.session_id) # {})
        => LET old == CurrentPhases(store, mm.session_id)
               new == Len(store.phases) + 1
           IN  /\ CurrentPhaseName' = ret'.name
               /\ \A p \in old : /\ store'.phases[p].ended
                                 /\ <<mm.session_id, p>> \notin store'.current
               /\ Len(store'.phases) = new
               /\ \A p \in 1..Len(store.phases) :
                     store'.phases[p] = [store.phases[p] EXCEPT !.ended = @ \/ p \in old]
               /\ store'.phases[new] =
                     [content |-> mm.session_id, name |-> ret'.name, ended |-> FALSE]
               /\ CurrentPhases(store', mm'.session_id) = {new}
               /\ mm'.current_phase_id = new
               /\ ret'.id = new]_vars

\* C3 witness: a transition_phase to another name returned on a session that
\* had a current phase
C3_Witness ==
    /\ ret.op = "transition_phase" /\ ret.exc = "none"
    /\ ret.before \in PhaseNames /\ ret.name # ret.before
    /\ CurrentPhaseName = ret.name

\* C4: no session exists without its first Phase, named Context Gathering, and
\* a start_new_session that returned gave a non-null id of a session whose one
\* current phase is named Context Gathering.
C4_StartNewSessionAtomic ==
    /\ \A c \in 1..Len(store.contents) :
          \E p \in 1..Len(store.phases) :
              /\ store.phases[p].content = c
              /\ store.phases[p].name = "Context Gathering"
              /\ \A o \in 1..(p - 1) : store.phases[o].content # c
    /\ (ret.op = "start_new_session" /\ ret.exc = "none")
          => /\ ret.id # 0 /\ ret.id = mm.session_id
             /\ ret.id \in 1..Len(store.contents)
             /\ Cardinality(CurrentPhases(store, ret.id)) = 1
             /\ CurrentPhaseName = "Context Gathering"

\* C4 witness: start_new_session returned
C4_Witness ==
    /\ ret.op = "start_new_session" /\ ret.exc = "none"
    /\ Len(store.contents) = 1 /\ Len(store.phases) = 1

\* C5: a start_session(content_type, topic) that returned issued exactly one
\* start_new_session write, with (content_type, topic), and exactly one
\* add_question write; the question it persisted is the pending question, and
\* the reply is the welcome text carrying the topic followed by that question.
C5_StartSession ==
    [][(ret'.op = "start_session" /\ ret'.exc = "none")
        => LET sns == {i \in DOMAIN ret'.log : ret'.log[i].op = "start_new_session"}
               aq == {i \in DOMAIN ret'.log : ret'.log[i].op = "add_question"}
               q == Len(store.questions) + 1
           IN  /\ Cardinality(sns) = 1
               /\ \A i \in sns : ret'.log[i].args = ret'.text
               /\ Cardinality(aq) = 1
               /\ Len(store'.contents) = Len(store.contents) + 1
               /\ Len(store'.questions) = q
               /\ eng'.last_question_id = q
               /\ store'.questions[q].content = mm'.session_id
               /\ Len(ret'.resp) = 2
               /\ ret'.resp[1] = WelcomeSeg(ret'.text[1], ret'.text[2])
               /\ ret'.text[2] \in {ret'.resp[1].s[i] : i \in DOMAIN ret'.resp[1].s}
               /\ ret'.resp[2] = QuestionSeg(store'.questions[q].text)
               /\ Cardinality(CurrentPhases(store', mm'.session_id)) = 1]_vars

\* C5 witness: start_session returned with a welcome and one question
C5_Witness ==
    /\ ret.op = "start_session" /\ ret.exc = "none"
    /\ Len(ret.resp) = 2 /\ ret.resp[2].seg = "question"
    /\ Len(store.questions) = 1 /\ eng.last_question_id = 1

\* The keyword sets of the phases, by phase name
KeywordSet(name) ==
    CASE name = "Context Gathering" ->
            {kw_next, kw_structure, kw_outline, kw_move_on, kw_enough_context}
      [] name = "Structure Development" ->
            {kw_next, kw_content, kw_details, kw_expand, kw_flesh_out, kw_move_on}
      [] name = "Content Development" ->
            {kw_next, kw_refine, kw_review, kw_finalize, kw_polish, kw_revise}
      [] OTHER -> {}

Occurs(needle, hay) ==
    \E i \in 0..(Len(hay) - Len(needle)) : SubSeq(hay, i + 1, i + Len(needle)) = needle

\* The decision of the keyword policy on a text in the phase of that name
KeywordDecision(name, text) == \E kw \in KeywordSet(name) : Occurs(kw, lower(text))

\* C6: _should_transition_phase answers true exactly when the lower-cased text
\* contains a keyword of the current phase's set; in Context Gathering a text
\* containing "let's move on" gives true and "I like cats" gives false; in
\* Refinement, in a phase of unknown name and without a current phase the
\* answer is false.
C6_KeywordPolicy ==
    ret.op = "_should_transition_phase"
        => /\ ret.ok <=> KeywordDecision(ret.before, ret.text)
           /\ (ret.before = "Context Gathering" /\ Occurs(txt_lets_move_on, ret.text))
                => ret.ok
           /\ (ret.before = "Context Gathering" /\ ret.text = txt_i_like_cats) => ~ret.ok
           /\ ret.before \notin {"Context Gathering", "Structure Development",
                                 "Content Development"} => ~ret.ok

\* C6 witness: an upper-case "NEXT" was answered true in Context Gathering
C6_Witness ==
    /\ ret.op = "_should_transition_phase"
    /\ ret.before = "Context Gathering" /\ ret.text = txt_NEXT /\ ret.ok

Min(a, b) == IF a < b THEN a ELSE b

\* C7: after n add_message calls on a window of capacity c the window holds
\* the last min(n, c) appended turns in append order, and get_recent_context
\* returns exactly their role and content, in that order.
C7_SlidingWindow ==
    LET n == Len(hist)
        c == win.max_context_messages
        m == Min(n, c)
        ctx == get_recent_context(win)
    IN  /\ Len(win.recent_messages) = m
        /\ win.recent_messages = SubSeq(hist, n - m + 1, n)
        /\ Len(ctx) = m
        /\ \A i \in 1..m :
              /\ DOMAIN ctx[i] = {"role", "content"}
              /\ ctx[i].role = hist[n - m + i].role
              /\ ctx[i].content = hist[n - m + i].content

\* C7 witness: 11 turns were appended to a window of capacity 10, which holds
\* turns 2..11
C7_Witness ==
    /\ win.max_context_messages = 10 /\ Len(hist) = 11
    /\ Len(win.recent_messages) = 10
    /\ win.recent_messages[1] = hist[2] /\ win.recent_messages[10] = hist[11]
    /\ hist[1].timestamp \notin {win.recent_messages[i].timestamp : i \in 1..10}

\* The analysis call of the last turn raised or gave something that is not a
\* JSON object
AnalysisFailed == ret.api \in {"raise", "not_json", "null", "list"}

\* A question call of the last turn raised
GenerationFailed == \E i \in DOMAIN ret.gens : ret.gens[i] = "raise"

\* C8: under the external-analyzer policy, a process_user_input whose analysis
\* call or question call failed while the store accepted every write, on a
\* session with a current phase, returns without an exception a non-empty
\* reply that ends in a question, and that question is persisted as the
\* pending question.
C8_AnalyzerFallback ==
    (/\ ret.op = "process_user_input" /\ eng.use_llm
     /\ AnalysisFailed \/ GenerationFailed
     /\ NoWriteRejected
     /\ ret.before \in PhaseNames)
        => /\ ret.exc = "none"
           /\ ret.resp # <<>>
           /\ Writes("add_question") # {}
           /\ eng.last_question_id = Len(store.questions)
           /\ eng.last_question_id # 0
           /\ ret.resp[Len(ret.resp)] =
                  QuestionSeg(store.questions[eng.last_question_id].text)

\* C8 witness: the analysis call returned JSON that is not an object, the
\* turn fell back and returned a question
C8_Witness ==
    /\ ret.op = "process_user_input" /\ eng.use_llm
    /\ ret.api \in {"null", "list"} /\ NoWriteRejected
    /\ ret.before = "Context Gathering" /\ ret.exc = "none"
    /\ ret.resp # <<>> /\ ret.resp[Len(ret.resp)].seg = "question"

\* C9: on a turn whose analysis call failed, the phase advances exactly when
\* the keyword policy decides so on the same text and phase.
C9_FallbackIsKeywordPolicy ==
    (/\ ret.op = "process_user_input" /\ eng.use_llm
     /\ AnalysisFailed
     /\ NoWriteRejected
     /\ ret.before \in PhaseNames)
        => ((CurrentPhaseName # ret.before) <=> KeywordDecision(ret.before, ret.text))

\* C10: under the external-analyzer policy, when a question call failed the
\* question persisted and returned is one of the prompts of the current phase.
C10_QuestionFallback ==
    (/\ ret.op \in {"start_session", "process_user_input"} /\ eng.use_llm
     /\ GenerationFailed
     /\ NoWriteRejected
     /\ ret.exc = "none"
     /\ ret.resp # <<>> /\ ret.resp[Len(ret.resp)].seg = "question")
        => LET question == store.questions[eng.last_question_id].text
           IN  /\ ret.resp[Len(ret.resp)].q = question
               /\ question.kind = "prompt"
               /\ question.phase = phase_map(CurrentPhaseName)
               /\ question.idx \in 1..NumPrompts

\* C11: a window built by add_message and set_analysis_result, saved and
\* loaded into a fresh window, gives the same turns (role, content, timestamp,
\* metadata) in the same order and the same session id, topic, content type,
\* confidence map and working-memory map.
C11_SaveLoadRoundTrip ==
    ret.op = "save_load"
        => LET loaded == ret.loaded[1]
           IN  /\ Len(loaded.recent_messages) = Len(win.recent_messages)
               /\ \A i \in DOMAIN win.recent_messages :
                     /\ loaded.recent_messages[i].role = win.recent_messages[i].role
                     /\ loaded.recent_messages[i].content = win.recent_messages[i].content
                     /\ loaded.recent_messages[i].timestamp
                            = win.recent_messages[i].timestamp
                     /\ loaded.recent_messages[i].metadata = win.recent_messages[i].metadata
               /\ loaded.session_id = win.session_id
               /\ loaded.current_topic = win.current_topic
               /\ loaded.content_type = win.content_type
               /\ loaded.confidence = win.confidence
               /\ loaded.working_memory = win.working_memory

\* C11 witness: a started window with two turns, one stamped on a whole second
\* and one not, and an analysis result was saved and loaded
C11_Witness ==
    /\ ret.op = "save_load"
    /\ Len(win.recent_messages) = 2
    /\ win.recent_messages[1].timestamp % MicrosPerSecond = 0
    /\ win.recent_messages[2].timestamp % MicrosPerSecond # 0
    /\ win.session_id # None
    /\ DOMAIN win.confidence # {} /\ DOMAIN win.working_memory # {}
    /\ Len(ret.loaded[1].recent_messages) = 2

\* An entry from_storage_dict can read: role, content and a timestamp text
\* that parses
WellFormedTurn(e) ==
    /\ {"role", "content", "timestamp"} \subseteq DOMAIN e
    /\ Len(e.timestamp) \in {1, 2}

\* C12: load_state of a snapshot whose recent_messages holds malformed entries
\* (no role, no content, no timestamp, or a timestamp that does not parse)
\* restores exactly the well-formed entries, in their order, and skips the
\* others; the other fields are taken from the snapshot.
C12_LoadStateSkipsMalformed ==
    ret.op = "load_state"
        => LET good == SelectSeq(ret.snap.recent_messages, WellFormedTurn)
           IN  /\ ret.exc = "none"
               /\ Len(win.recent_messages) = Len(good)
               /\ \A i \in DOMAIN good :
                     /\ win.recent_messages[i].role = good[i].role
                     /\ win.recent_messages[i].content = good[i].content
                     /\ isoformat(win.recent_messages[i].timestamp) = good[i].timestamp

\* C12 witness: a snapshot of two entries whose first is malformed was loaded
\* and the window holds the second alone
C12_Witness ==
    /\ ret.op = "load_state"
    /\ Len(ret.snap.recent_messages) = 2
    /\ ~WellFormedTurn(ret.snap.recent_messages[1])
    /\ WellFormedTurn(ret.snap.recent_messages[2])
    /\ Len(win.recent_messages) = 1
    /\ win.recent_messages[1].role = ret.snap.recent_messages[2].role

\* The most recent Question of session c, 0 when it has none
LastQuestionOf(c) ==
    LET qs == {q \in 1..Len(store.questions) : store.questions[q].content = c}
    IN  IF qs = {} THEN 0 ELSE CHOOSE q \in qs : \A o \in qs : o <= q

\* C13: resuming a session id that does not resolve returns a failure signal
\* (an empty result) instead of raising, and leaves the handle's session id
\* and current phase id and the engine's pending question id as they were.
C13_ResumeUnknownFails ==
    [][(ret'.op = "resume_session" /\ ret'.id \notin 1..Len(store.contents))
        => /\ ret'.exc = "none"
           /\ ret'.resp = <<>>
           /\ mm' = mm
           /\ eng'.last_question_id = eng.last_question_id]_vars

\* C14: resuming an existing session returns a resumption message without
\* raising, makes that session the handle's session, sets the pending question
\* id to the id of the session's most recent Question and creates no Question.
C14_ResumeRestores ==
    [][(ret'.op = "resume_session" /\ ret'.id \in 1..Len(store.contents))
        => /\ ret'.exc = "none"
           /\ ret'.resp # <<>>
           /\ mm'.session_id = ret'.id
           /\ eng'.last_question_id = LastQuestionOf(ret'.id)
           /\ store'.questions = store.questions
           /\ CurrentPhaseName' = CurrentPhaseName]_vars

\* The last step was process_user_input of a text that starts with "/" and
\* whose command, stripped and lower-cased, is cmd
CommandStep(cmd) ==
    /\ ret'.op = "process_user_input"
    /\ startswith(ret'.text, <<"/">>)
    /\ lower(strip(ret'.text)) = cmd

\* The UserInput a process_user_input of the text leaves at the end of the
\* session's inputs
PersistedInput(text) ==
    [content |-> mm.session_id, text |-> text,
     response_to |-> IF eng.last_question_id \in 1..Len(store.questions)
                     THEN eng.last_question_id ELSE 0]

\* C15: process_user_input("/status") leaves the session's current phase, the
\* Phase records, the Question records and the pending question id as they
\* were, whatever the state and whatever the store does; when it returns, the
\* one thing it added to the store is the UserInput holding the command text.
C15_StatusNeverMutates ==
    [][CommandStep(cmd_status)
        => /\ store'.phases = store.phases
           /\ store'.current = store.current
           /\ store'.questions = store.questions
           /\ store'.contents = store.contents
           /\ mm' = mm
           /\ eng'.last_question_id = eng.last_question_id
           /\ ret'.exc = "none"
                => /\ store'.inputs = Append(store.inputs, PersistedInput(ret'.text))
                   /\ Len(ret'.resp) = 1 /\ ret'.resp[1].seg = "Status"
                   /\ ret'.resp[1].s[1] = ret'.before]_vars

C15_Witness ==
    /\ ret.op = "process_user_input" /\ ret.text = cmd_status /\ ret.exc = "none"
    /\ ret.resp[1].seg = "Status"
    /\ CurrentPhaseName = "Content Development"
    /\ eng.use_llm
    /\ store.inputs[Len(store.inputs)].text = cmd_status

\* The store accepted every write of the step, which ran on a started session
AcceptedOnSession ==
    /\ \A i \in DOMAIN ret'.log : ~ret'.log[i].failed
    /\ mm.session_id \in 1..Len(store.contents)

\* C16: on a started session whose writes the store accepts, a /next command
\* leaves the Phase records, the current phase and the handle exactly as a
\* direct transition_to_next_phase call from the same state would.  From
\* Context Gathering, Structure Development and Content Development the
\* current phase becomes the successor, one Question is added, for the new
\* phase, it becomes the pending question, and the reply is the transition
\* message followed by that question.  From Refinement the reply is the
\* cannot-transition text and the phase, the Question records and the pending
\* question id are unchanged.
C16_NextMatchesTransition ==
    [][(CommandStep(cmd_next) /\ AcceptedOnSession)
        => LET direct == transition_to_next_phase(NoEnv(0))
               before == CurrentPhaseName
               q == Len(store.questions) + 1
           IN  /\ ret'.exc = "none"
               /\ direct.exc = "none"
               /\ store'.phases = direct.w.phases
               /\ store'.current = direct.w.current
               /\ mm' = HandleOf(direct.w)
               /\ IF before \in {"Context Gathering", "Structure Development",
                                 "Content Development"}
                  THEN /\ direct.rv
                       /\ CurrentPhaseName' = NextName(before)
                       /\ Len(store'.questions) = q
                       /\ SubSeq(store'.questions, 1, q - 1) = store.questions
                       /\ store'.questions[q].phase = mm'.current_phase_id
                       /\ store'.questions[q].intent = NextName(before)
                       /\ eng'.last_question_id = q
                       /\ ret'.resp = <<SystemSeg("Phase Transition", <<NextName(before)>>, 0),
                                        QuestionSeg(store'.questions[q].text)>>
                  ELSE /\ ~direct.rv
                       /\ ret'.resp = <<SystemSeg("Error",
                                                  <<"Cannot transition to next phase">>, 0)>>
                       /\ CurrentPhaseName' = before
                       /\ store'.phases = store.phases
                       /\ store'.questions = store.questions
                       /\ eng'.last_question_id = eng.last_question_id]_vars

C16_Witness ==
    /\ ret.op = "process_user_input" /\ ret.text = txt_slash_NEXT_sp /\ ret.exc = "none"
    /\ NoWriteRejected
    /\ ret.before = "Refinement" /\ CurrentPhaseName = "Refinement"
    /\ ret.resp = <<SystemSeg("Error", <<"Cannot transition to next phase">>, 0)>>
    /\ Len(store.phases) = 4

\* C17: a process_user_input of a text that starts with "/" never calls the
\* analysis of the external analyzer, and unless its command is /next it
\* leaves the Phase records, the current phase, the handle, the Question
\* records and the pending question id as they were, also when the text holds
\* a keyword of the current phase ("/structure" in Context Gathering).
C17_CommandsBypassContentPath ==
    [][(ret'.op = "process_user_input" /\ startswith(ret'.text, <<"/">>))
        => /\ ret'.api_calls = 0
           /\ lower(strip(ret'.text)) # cmd_next
                => /\ store'.phases = store.phases
                   /\ store'.current = store.current
                   /\ mm' = mm
                   /\ CurrentPhaseName' = CurrentPhaseName
                   /\ store'.questions = store.questions
                   /\ eng'.last_question_id = eng.last_question_id]_vars

C17_Witness ==
    /\ ret.op = "process_user_input" /\ ret.text = txt_slash_structure /\ ret.exc = "none"
    /\ KeywordDecision(ret.before, ret.text)
    /\ ret.before = "Context Gathering" /\ CurrentPhaseName = "Context Gathering"
    /\ ~eng.use_llm
    /\ ret.resp = <<SystemSeg("Error", <<"Unknown command">>, 0)>>

\* The titles of the messages the command path answers with
CommandTitles ==
    {"Help Commands", "Status", "Export", "Interactive Menu", "Phase Transition", "Error"}

\* On a started session whose writes the store accepts: a text that starts
\* with "/" and whose command is not in the table is answered, without an
\* exception, by the Unknown-command error, the phase and the pending question
\* staying as they were; a text that does not start with "/" goes the content
\* path: the analysis is called when the analyzer is configured, the keyword
\* policy decides when it is not, and a reply ends in a question and holds
\* no command message.
CommandTable(table) ==
    (ret'.op = "process_user_input" /\ AcceptedOnSession)
        => IF startswith(ret'.text, <<"/">>)
           THEN lower(strip(ret'.text)) \notin table
                    => /\ ret'.exc = "none"
                       /\ ret'.resp = <<SystemSeg("Error", <<"Unknown command">>, 0)>>
                       /\ CurrentPhaseName' = CurrentPhaseName
                       /\ store'.phases = store.phases
                       /\ store'.current = store.current
                       /\ eng'.last_question_id = eng.last_question_id
           ELSE /\ CurrentPhaseName # None => ret'.api_calls = (IF eng.use_llm THEN 1 ELSE 0)
                /\ ~eng.use_llm
                     => (CurrentPhaseName' # CurrentPhaseName
                            <=> KeywordDecision(CurrentPhaseName, ret'.text))
                /\ ret'.exc = "none"
                     => /\ ret'.resp # <<>>
                        /\ ret'.resp[Len(ret'.resp)].seg = "question"
                        /\ \A i \in DOMAIN ret'.resp : ret'.resp[i].seg \notin CommandTitles
                        /\ eng'.last_question_id = Len(store.questions) + 1

C20_AddUserInputDanglingLink ==
    [][(ret'.op = "add_user_input" /\ AcceptedOnSession)
        => /\ ret'.exc = "none"
           /\ ret'.id = Len(store.inputs) + 1
           /\ store'.inputs =
                  Append(store.inputs,
                         [content |-> mm.session_id, text |-> ret'.text,
                          response_to |-> IF ret'.response_to \in 1..Len(store.questions)
                                          THEN ret'.response_to ELSE 0])
           /\ store'.contents = store.contents
           /\ store'.phases = store.phases
           /\ store'.current = store.current
           /\ store'.questions = store.questions
           /\ mm' = mm]_vars

C20_Witness ==
    /\ ret.op = "add_user_input" /\ ret.exc = "none" /\ NoWriteRejected
    /\ Len(store.questions) = 1
    /\ ret.response_to = 2
    /\ store.inputs[ret.id].response_to = 0
    /\ store.inputs[ret.id].content = mm.session_id

\* C21: an add_question on a session without a current Phase raises and
\* creates no Question.
C21_AddQuestionNeedsCurrentPhase ==
    [][(ret'.op = "add_question" /\ CurrentPhases(store, mm.session_id) = {})
        => /\ ret'.exc # "none"
           /\ store'.questions = store.questions]_vars

\* C22: a start_new_session given an empty content type or an empty topic
\* raises, creates no Session and no Phase and leaves the handle as it was.
C22_StartNewSessionValidates ==
    [][(ret'.op = "start_new_session" /\ (ret'.text[1] = "" \/ ret'.text[2] = ""))
        => /\ ret'.exc # "none"
           /\ store' = store
           /\ mm' = mm]_vars

\* C23: on a started session whose stored current phase name is none of the
\* four names, or that has no current phase, the controller's
\* get_current_phase gives the unknown marker, and a process_user_input of a
\* content input or of /status, its writes accepted, returns a reply without
\* raising.
C23_UnknownPhaseIsNoCrash ==
    [][(/\ ret'.op = "process_user_input" /\ AcceptedOnSession
        /\ MemoryManager_get_current_phase(NoEnv(0)) \notin PhaseNames
        /\ ~startswith(ret'.text, <<"/">>) \/ CommandStep(cmd_status))
        => /\ get_current_phase(NoEnv(0)) = None
           /\ ret'.exc = "none"
           /\ ret'.resp # <<>>]_vars

\* The window of the engine ends with the user's text followed by the reply
WindowHoldsTurn(agent_state, text, resp) ==
    /\ agent_state # <<>>
    /\ LET msgs == agent_state[1].recent_messages
           n == Len(msgs)
       IN  /\ n >= 2
           /\ msgs[n - 1].role = "user" /\ msgs[n - 1].content = UserContent(text)
           /\ msgs[n].role = "assistant" /\ msgs[n].content = AssistantContent(resp)

\* C24: after every process_user_input that returned, the engine's window
\* ends with the user's text followed by the assistant's reply.
C24_EveryTurnUpdatesWindow ==
    [][(ret'.op = "process_user_input" /\ ret'.exc = "none")
        => WindowHoldsTurn(eng'.agent_state, ret'.text, ret'.resp)]_vars

\* The observation shows session c with exactly one current phase
SeesOneCurrentPhase(o, c) ==
    CASE o.call = "get_current_phase" -> o.value[1] # None
      [] o.call = "list_sessions" ->
            /\ Cardinality({i \in DOMAIN o.value : o.value[i].id = c}) = 1
            /\ \A i \in DOMAIN o.value : o.value[i].id = c => o.value[i].current_phase # None
      [] o.call = "load_session" -> o.value # <<>> /\ o.value[1].phase_name # None

\* C25: whatever a second handle reads from the store while transition_phase
\* runs on a session (get_current_phase, list_sessions, load_session), it
\* sees that session with exactly one current phase.
C25_ReadersSeeOneCurrentPhase ==
    \A i \in DOMAIN ret.seen :
        \A c \in 1..Len(store.contents) :
            ret.seen[i].session_id \in {0, c} => SeesOneCurrentPhase(ret.seen[i], c)

\* C26: load_session(id) of a stored session returns its id, topic and type,
\* the name of its current Phase (None when it has none) and the id and text
\* of the Question of that session created last (None when it has no
\* Question), points the handle's session id at it and the cached phase id at
\* its current Phase, and writes nothing; for an id that names no session it
\* returns None and leaves the handle as it was.
C26_LoadSession ==
    [][ret'.op = "load_session"
        => /\ store' = store
           /\ ret'.exc = "none"
           /\ IF ret'.id \in 1..Len(store.contents)
              THEN /\ Len(ret'.loaded) = 1
                   /\ LET d == ret'.loaded[1]
                          cur == CurrentPhases(store, ret'.id)
                          q == d.last_question_id
                      IN  /\ d.id = ret'.id
                          /\ d.topic = store.contents[ret'.id].topic
                          /\ d.type = store.contents[ret'.id].type
                          /\ mm'.session_id = ret'.id
                          /\ IF cur = {}
                             THEN d.phase_name = None /\ mm'.current_phase_id = 0
                             ELSE /\ mm'.current_phase_id \in cur
                                  /\ d.phase_name = store.phases[mm'.current_phase_id].name
                          /\ IF q = 0
                             THEN /\ d.last_question = <<>>
                                  /\ \A o \in DOMAIN store.questions :
                                         store.questions[o].content # ret'.id
                             ELSE /\ q \in DOMAIN store.questions
                                  /\ store.questions[q].content = ret'.id
                                  /\ d.last_question = <<store.questions[q].text>>
                                  /\ \A o \in DOMAIN store.questions :
                                         store.questions[o].content = ret'.id => o <= q
              ELSE ret'.loaded = <<>> /\ mm' = mm]_vars

C26_Witness ==
    /\ ret.op = "load_session" /\ ret.id = 1
    /\ Len(store.contents) = 2 /\ mm.session_id = 1
    /\ ret.loaded[1].last_question_id = 1
    /\ Len(store.questions) = 2 /\ store.questions[2].content = 2
    /\ ret.loaded[1].phase_name = "Structure Development"
    /\ mm.current_phase_id = 2

\* The Questions the step created
NewQuestions == (Len(store.questions) + 1)..Len(store'.questions)

AnalysisSucceeded == ret'.api \in {"transition", "stay", "no_message"}

\* C28: the policy flag is what the construction made it (the analyzer policy
\* exactly when a client and a prompt manager were given) and no step changes
\* it.  Under the analyzer policy, a content input on a session in a
\* non-final phase whose analysis succeeded and whose writes the store
\* accepted starts a phase transition exactly when the analysis says
\* should_transition, whatever keywords the text holds; from Refinement no
\* transition is started.  Under the keyword policy no step calls the
\* analysis.
C28_OnePolicy ==
    [][/\ eng'.use_llm = eng.use_llm
       /\ eng'.use_llm = (eng'.llm_client /\ eng'.prompt_manager)
       /\ ~eng.use_llm => ret'.api_calls = 0
       /\ (/\ ret'.op = "process_user_input" /\ eng.use_llm
           /\ ~startswith(ret'.text, <<"/">>)
           /\ AcceptedOnSession /\ CurrentPhaseName \in PhaseNames
           /\ AnalysisSucceeded)
            => /\ ret'.api_calls = 1
               /\ ret'.exc = "none"
               /\ (\E i \in DOMAIN ret'.log : ret'.log[i].op = "end_phase")
                    <=> (ret'.api \in {"transition", "no_message"}
                         /\ CurrentPhaseName # "Refinement")
               /\ CurrentPhaseName' =
                      IF ret'.api \in {"transition", "no_message"}
                         /\ CurrentPhaseName # "Refinement"
                      THEN NextName(CurrentPhaseName) ELSE CurrentPhaseName]_vars

C28_Witness ==
    /\ ret.op = "process_user_input" /\ eng.use_llm /\ ret.exc = "none"
    /\ ret.text = txt_lets_move_on /\ ret.api = "stay" /\ ret.api_calls = 1
    /\ NoWriteRejected
    /\ ret.before = "Context Gathering" /\ CurrentPhaseName = "Context Gathering"
    /\ KeywordDecision(ret.before, ret.text)

\* C29: once an access to the store for the handle's session (add_question,
\* transition_to_next_phase, load_session) has run with every write
\* accepted, the session has exactly one current phase again, also when an
\* earlier transition_phase had ended the current phase without opening the
\* new one.
C29_RepairOnNextAccess ==
    (/\ ret.op \in {"add_question", "transition_to_next_phase", "load_session"}
     /\ NoWriteRejected
     /\ mm.session_id \in 1..Len(store.contents))
        => Cardinality(CurrentPhases(store, mm.session_id)) = 1

\* add_user_input of the step raised: the store rejected one of its writes,
\* or the handle has no session
AddUserInputRaised ==
    \/ \E i \in DOMAIN ret'.log :
           ret'.log[i].op \in {"add_user_input", "response_to"} /\ ret'.log[i].failed
    \/ mm.session_id \notin 1..Len(store.contents)

\* C30: a process_user_input whose add_user_input raised raises the same
\* error to its caller, issues no further store write, and leaves the Phase
\* records, the current phase, the Question records, the handle, the pending
\* question id and the window as they were.
C30_InputFailurePropagates ==
    [][(ret'.op = "process_user_input" /\ AddUserInputRaised)
        => /\ ret'.exc \in {"StoreError", "TypeError"}
           /\ ret'.log[Len(ret'.log)].op \in {"add_user_input", "response_to"}
           /\ ret'.api_calls = 0
           /\ store'.phases = store.phases
           /\ store'.current = store.current
           /\ store'.questions = store.questions
           /\ store'.contents = store.contents
           /\ mm' = mm
           /\ eng' = eng]_vars

C30_Witness ==
    /\ ret.op = "process_user_input" /\ ret.exc = "StoreError"
    /\ ret.log[1].op = "add_user_input" /\ ret.log[1].failed
    /\ eng.use_llm /\ ret.text = txt_lets_move_on
    /\ CurrentPhaseName = "Context Gathering"
    /\ store.inputs = <<>> /\ Len(store.questions) = 1

\* C31: AgentState.reset() leaves a window that equals a newly constructed one
\* of the same capacity (no turns, no topic, content type or session id, empty
\* confidence, working-memory and last-analysis maps, max_context_messages as
\* before); and after a start_session that returns under the external-analyzer
\* policy the window holds none of the turns it held before the call.
C31_ResetKeepsOnlyCapacity ==
    /\ ret.op = "reset" =>
          eng.agent_state[1] = AgentState(ret.window[1].max_context_messages)
    /\ (ret.op = "start_session" /\ ret.exc = "none" /\ eng.use_llm) =>
          \A i \in DOMAIN eng.agent_state[1].recent_messages :
              \A j \in DOMAIN ret.window[1].recent_messages :
                  eng.agent_state[1].recent_messages[i] # ret.window[1].recent_messages[j]

C31_Witness ==
    /\ ret.op = "start_session"
    /\ ret.exc = "none"
    /\ eng.use_llm
    /\ Len(store.contents) = 2
    /\ ret.window[1].recent_messages # <<>>
    /\ Len(eng.agent_state[1].recent_messages) = 2

\* C32: one process_user_input call opens at most one new phase on the
\* session, also when the analyzer path applied a transition, a later write
\* was rejected and the keyword policy then ran on the same input.
C32_AtMostOnePhaseStep ==
    [][ret'.op = "process_user_input" => Len(store'.phases) <= Len(store.phases) + 1]_vars

\* C33: in every state a window reaches by add_message, load_state and reset
\* it holds at most max_context_messages turns, also after load_state of a
\* snapshot that lists more turns than the capacity.
C33_CapacityBound == Len(win.recent_messages) <= win.max_context_messages

\* C34: a snapshot returned by save_state reads the same after any later
\* add_message, set_analysis_result and reset on the window it was taken
\* from, and a window restored from it by load_state refers to no confidence
\* or working-memory object that the snapshot or the original window refers
\* to.
C34_SnapshotIsolation ==
    /\ ret.op = "save_state" => Deref(hist, ret.snap) = ret.seen[1]
    /\ ret.loaded # <<>> =>
          {ret.loaded[1].confidence, ret.loaded[1].working_memory}
              \cap {ret.snap.confidence, ret.snap.working_memory,
                    win.confidence, win.working_memory} = {}

\* A reply that says the session moves on to the next phase
Announces(resp) ==
    \E i \in DOMAIN resp : resp[i].seg \in {"transition_message", "next_phase_msg"}

\* C35: a process_user_input call returns a reply that announces a phase
\* advance only when the call opened a new phase; under the external-analyzer
\* policy, an analysis with should_transition = true on a session in
\* Refinement gets a reply without the transition message.
C35_AnnouncesOnlyAdvance ==
    [][(ret'.op = "process_user_input" /\ ret'.exc = "none" /\ Announces(ret'.resp))
          => Len(store'.phases) > Len(store.phases)]_vars

\* C36: every RESPONSE_TO link of the store connects a UserInput to a
\* Question of the same Session, also after a start_session on a reused
\* engine failed between creating the Session and persisting its first
\* question.
C36_ResponseToWithinSession ==
    \A i \in DOMAIN store.inputs :
        store.inputs[i].response_to \in DOMAIN store.questions
            => store.questions[store.inputs[i].response_to].content = store.inputs[i].content

\* C37: when InteractionEngine.load_state returns False (keyword policy, empty
\* snapshot, or a snapshot whose restore raises), the window and the engine's
\* session id are what they were before the call.
C37_LoadStateAllOrNothing ==
    (ret.op = "load_state" /\ ~ret.ok)
        => /\ eng.agent_state = ret.window
           /\ eng.session_id = ret.before

\* The four phase names in their fixed order
PhaseOrder ==
    <<"Context Gathering", "Structure Development", "Content Development", "Refinement">>

\* The Phase records of session c, oldest first
PhaseHistory(st, c) == SelectSeq(st.phases, LAMBDA p : p.content = c)

=============================================================================
